---- MODULE Spec2Model ----
(***************************************************************************)
(* jwknife: the pipeline dispatcher (run), the flag handling of read and   *)
(* write, and the retrying HTTP transport (httpConf.Do).                   *)
(*                                                                         *)
(* Time is counted in clock ticks, Sec ticks to the second.  Durations     *)
(* (time.Duration) are integers of ticks; the float64 fields backoff and   *)
(* jitter are kept in tenths (15 is 1.5), and a float product converted    *)
(* to a Duration truncates, as time.Duration(x) does.                      *)
(***************************************************************************)
EXTENDS Integers, Sequences, FiniteSets, TLC

\* ------------------------------------------------------------------ bounds
\* Clock ticks per second.
Sec == 1
\* The longest a single client.Do call takes when no timeout cuts it short.
MaxDur == 3
\* time.Sleep pauses for at least its argument: the most it oversleeps.
MaxOversleep == 1
\* The attempt counter saturates here (MaxAttempts reads "or more").
MaxAttempts == 3
\* The most arguments run is given.
MaxArgs == 4
\* The most flags a single invocation is given.
MaxFlags == 3
MaxCalls == 2
MaxListed == 3
\* Rejected responses whose background task the model follows.
MaxDrains == 1

\* Clock readings saturate at MaxTime, which lies beyond every deadline the
\* model can set, so a saturated reading compares like the real one.
MaxTime == 5 * Sec + MaxDur + 2

\* ---------------------------------------------------------------- helpers
Min(a, b) == IF a < b THEN a ELSE b

Tick(t) == Min(t, MaxTime)

\* ------------------------------------------------------- retry policies
Timeouts == {0, Sec}
Intervals == {0, Sec}
Backoffs == {10, 15, 20}
RetryFors == {0, Sec, 3 * Sec, 5 * Sec}
Jitters == {0, 20}

httpConf == [timeout : Timeouts, interval : Intervals, backoff : Backoffs,
             retryFor : RetryFors, jitter : Jitters]

Schemes == {"http", "https"}

\* Status codes a server answers with when it does not redirect.
Statuses == {200, 201, 503}
StatusFound == 302

NoErr == [cause |-> "nil", temporary |-> FALSE, n |-> 0]
NoResp == [status |-> 0, from |-> "none", location |-> "none", n |-> 0]

VARIABLES
    conf,         \* the policy Do is called on (the caller's value)
    c,            \* Do's receiver copy; Do multiplies c.interval
    req,          \* the prepared request: [scheme, method]
    caller,       \* who passed accept: "read" or "write"
    now,          \* the clock, time.Now(); Do is entered at 0
    lastBefore,   \* the deadline, line 46
    wait,         \* the loop variable of line 49
    lastErr,      \* line 48
    pc,           \* "loop", "clientDo", "handle", "returned"
    attempts,     \* calls of client.Do made so far
    via,          \* requests the client has issued in this attempt
    hop,          \* scheme of the request the client has in flight
    location,     \* scheme of the redirect target the policy is asked about
    sent,         \* schemes of all requests issued so far
    resp, err,    \* what client.Do returned, line 76 (locals of one pass)
    ret,          \* what Do returned: [resp, err]
    firstDone,    \* clock reading when the first attempt returned, -1 before
    slept,        \* the duration last passed to time.Sleep, -1 before
    reqBody,         \* the reader behind req.Body: "nil", "unread" or "read"
    ctx,          \* the context of the latest attempt, lines 69-77
    drains,       \* the goroutines of lines 88-91, one per rejected response
    argv,         \* os.Args[1:]
    cmds,         \* the invocations run splits the arguments into
    rpc,          \* where run is: "start", "exec", "returned"
    idx,          \* the index in cmds of the invocation to run next
    jwkset,       \* the key collection, set in run: a list of keys
    rerr,         \* the error run returned
    out,          \* what run printed to standard output
    results,      \* the error each invocation started so far returned
    fxlog,        \* the effects of each invocation started so far
    errout,       \* what main printed to standard error
    status,       \* the exit status of the process, -1 while it runs
    reg,          \* a flag registry (flagset) that a flag loop works on
    regprops,     \* the properties gen's -setstr and -setjson have collected
    calls,        \* the passes of the flag loop made so far on reg
    hcmd,         \* the command name of a single invocation
    hargs,        \* its flags, cmd[1:]
    hset,         \* the key collection the invocation is handed
    hres,         \* what its handler did: [err, set, fx]
    hpc           \* "call" before the handler runs, "done" after

doVars == <<conf, c, req, caller, now, lastBefore, wait, lastErr, pc, attempts,
            via, hop, location, sent, resp, err, ret, firstDone, slept, reqBody,
            ctx, drains>>

\* What the loop of Do itself works on.
loopVars == <<conf, c, req, caller, now, lastBefore, wait, lastErr, pc,
              attempts, via, hop, location, sent, resp, err, ret, firstDone,
              slept, reqBody, ctx>>

runVars == <<argv, cmds, rpc, idx, jwkset, rerr, out, results, fxlog, errout,
             status>>

flagVars == <<reg, regprops, calls>>

handlerVars == <<hcmd, hargs, hset, hres, hpc>>

\* What the transport, and what run, leaves alone.
besideDo == <<runVars, flagVars, handlerVars>>
besideRun == <<doVars, flagVars, handlerVars>>

vars == <<doVars, runVars, flagVars, handlerVars>>

\* ------------------------------------------------------------------ text
\* A string is a sequence of symbols: the characters "-", "=", ",", ":" and
\* "." stand for themselves, every other symbol stands for a run of other
\* characters ("url", "2048", "//h/keys").

\* strings.HasPrefix(s, prefix).
HasPrefix(s, prefix) ==
    /\ Len(s) >= Len(prefix)
    /\ SubSeq(s, 1, Len(prefix)) = prefix

\* strings.TrimPrefix(s, prefix).
TrimPrefix(s, prefix) ==
    IF HasPrefix(s, prefix) THEN SubSeq(s, Len(prefix) + 1, Len(s)) ELSE s

\* strings.Cut(s, sep) for a one-character sep: [before, after, found].
Cut(s, sep) ==
    IF \E i \in 1 .. Len(s) : s[i] = sep
    THEN LET i == CHOOSE i \in 1 .. Len(s) :
                     /\ s[i] = sep
                     /\ \A j \in 1 .. i - 1 : s[j] # sep
         IN [before |-> SubSeq(s, 1, i - 1), after |-> SubSeq(s, i + 1, Len(s)),
             found |-> TRUE]
    ELSE [before |-> s, after |-> <<>>, found |-> FALSE]

\* strings.Split(s, sep) for a one-character sep; SplitCut goes on from the
\* first cut of the text.
RECURSIVE Split(_, _)
SplitCut(cut, sep) ==
    IF cut.found THEN <<cut.before>> \o Split(cut.after, sep)
    ELSE <<cut.before>>

Split(s, sep) == SplitCut(Cut(s, sep), sep)

\* slices.Contains.
Contains(list, x) == \E i \in 1 .. Len(list) : list[i] = x

\* ----------------------------------------------------------------- flags
\* An error is its message and the flag or flags it names; Nil is no error.
Nil == [msg |-> "", flags |-> <<>>]
Error(m, names) == [msg |-> m, flags |-> names]

\* A panic: the process aborts with the message.
Panic(m) == Error(m, << <<"panic">> >>)

\* valflag[T], flags.go 73-79.  NoValue says that T is novalue; Parse names
\* the parse function and HasUpdate says that Update is not nil; Slice says
\* that T is a slice and Parse the parse function of its elements.
NoValueFlag(name) ==
    [Name |-> name, IsSet |-> FALSE, Value |-> <<>>, NoValue |-> TRUE,
     Parse |-> "none", HasUpdate |-> FALSE, Slice |-> FALSE]

ValueFlag(name, parse) ==
    [Name |-> name, IsSet |-> FALSE, Value |-> <<>>, NoValue |-> FALSE,
     Parse |-> parse, HasUpdate |-> FALSE, Slice |-> FALSE]

SliceFlag(name, parse) ==
    [Name |-> name, IsSet |-> FALSE, Value |-> <<>>, NoValue |-> FALSE,
     Parse |-> parse, HasUpdate |-> TRUE, Slice |-> TRUE]

ExternalFlag(name, handle) ==
    [Name |-> name, IsSet |-> FALSE, Value |-> <<>>, NoValue |-> FALSE,
     Parse |-> handle, HasUpdate |-> TRUE, Slice |-> FALSE]

\* flagset and addFlag, flags.go 180-187: a registry is its cells by name,
\* or has panicked on a name registered twice.
EmptyFlagset == [panic |-> FALSE, cells |-> <<>>]

addFlag(fs, f) ==
    IF fs.panic \/ \E i \in 1 .. Len(fs.cells) : fs.cells[i].Name = f.Name
    THEN [fs EXCEPT !.panic = TRUE]
    ELSE [fs EXCEPT !.cells = Append(fs.cells, f)]

\* s[name]: the index of the cell registered under name, 0 for nil.
Lookup(fs, name) ==
    IF \E i \in 1 .. Len(fs.cells) : fs.cells[i].Name = name
    THEN CHOOSE i \in 1 .. Len(fs.cells) : fs.cells[i].Name = name
    ELSE 0

Flag(fs, name) == fs.cells[Lookup(fs, name)]

\* The schemes of part_001 46-48; a scheme is a string.
plaintextSchemes == << <<"http">> >>
nonPlaintextSchemes == << <<"file">>, <<"https">> >>
supportedSchemes == nonPlaintextSchemes \o plaintextSchemes

\* strings.ToLower on one symbol, as url.Parse applies it to the scheme.
ToLower(sym) ==
    CASE sym = "HTTP" -> "http"
      [] sym = "HTTPS" -> "https"
      [] sym = "FILE" -> "file"
      [] OTHER -> sym

\* neturl.Parse: the text before the first ":" is the scheme (lower-cased),
\* a text without ":" is a relative reference with an empty scheme, and a
\* text that starts with ":" or holds a bad escape ("%zz") fails.
URLOf(text, cut) ==
    IF Contains(text, "%zz") \/ (cut.found /\ cut.before = <<>>)
    THEN [v |-> <<>>, err |-> Error("parse url", <<>>)]
    ELSE IF cut.found /\ Len(cut.before) = 1
    THEN [v |-> [Scheme |-> <<ToLower(cut.before[1])>>, Rest |-> cut.after],
          err |-> Nil]
    ELSE [v |-> [Scheme |-> <<>>, Rest |-> text], err |-> Nil]

ParseURL(text) == URLOf(text, Cut(text, ":"))

\* The parse function of url.schemes, part_001 57-65.
SupportedSchemes(split) ==
    IF \E i \in 1 .. Len(split) : ~Contains(supportedSchemes, split[i])
    THEN [v |-> <<>>, err |-> Error("unsupported scheme", <<>>)]
    ELSE [v |-> split, err |-> Nil]

ParseSchemes(text) == SupportedSchemes(Split(text, ","))

\* time.ParseDuration on the texts the model writes: a signed number with
\* the unit s, or 0; anything else fails.  The value is in ticks.
DurationText(text) ==
    CASE text = <<"0">> -> [ok |-> TRUE, d |-> 0]
      [] text = <<"1s">> -> [ok |-> TRUE, d |-> Sec]
      [] text = <<"3s">> -> [ok |-> TRUE, d |-> 3 * Sec]
      [] text = <<"-", "1s">> -> [ok |-> TRUE, d |-> 0 - Sec]
      [] OTHER -> [ok |-> FALSE, d |-> 0]

\* flags.go 189-198.
parseNonNegativeDuration(text) ==
    LET p == DurationText(text) IN
    IF ~p.ok THEN [v |-> 0, err |-> Error("invalid duration", <<>>)]
    ELSE IF p.d < 0 THEN [v |-> 0, err |-> Error("invalid negative duration", <<>>)]
    ELSE [v |-> p.d, err |-> Nil]

\* A float64: a number of tenths, or the value NaN, which strconv.ParseFloat
\* gives for the text NaN.  Less is the comparison < of Go, false whenever
\* one side is NaN.
Float(t) == [nan |-> FALSE, tenths |-> t]
NaN == [nan |-> TRUE, tenths |-> 0]
Less(a, b) == ~a.nan /\ ~b.nan /\ a.tenths < b.tenths

\* strconv.ParseFloat on the texts the model writes.
FloatText(text) ==
    CASE text = <<"0">> -> [ok |-> TRUE, f |-> Float(0)]
      [] text = <<"0", ".", "5">> -> [ok |-> TRUE, f |-> Float(5)]
      [] text = <<"1">> -> [ok |-> TRUE, f |-> Float(10)]
      [] text = <<"2">> -> [ok |-> TRUE, f |-> Float(20)]
      [] text = <<"-", "1">> -> [ok |-> TRUE, f |-> Float(0 - 10)]
      [] text = <<"NaN">> -> [ok |-> TRUE, f |-> NaN]
      [] OTHER -> [ok |-> FALSE, f |-> Float(0)]

\* flags.go 200-209.
parseNonNegativeFloat(text) ==
    LET p == FloatText(text) IN
    IF ~p.ok THEN [v |-> Float(0), err |-> Error("invalid float", <<>>)]
    ELSE IF Less(p.f, Float(0))
    THEN [v |-> Float(0), err |-> Error("value must be non-negative", <<>>)]
    ELSE [v |-> p.f, err |-> Nil]

\* flags.go 211-220.
parseMultiplier(text) ==
    LET p == FloatText(text) IN
    IF ~p.ok THEN [v |-> Float(0), err |-> Error("invalid float", <<>>)]
    ELSE IF Less(p.f, Float(10))
    THEN [v |-> Float(0), err |-> Error("must be a value of at least 1", <<>>)]
    ELSE [v |-> p.f, err |-> Nil]

\* The parse function of path.mode and path.mkdir, part_003 57-76: an octal
\* number within os.ModePerm.
ParseMode(text) ==
    CASE text = <<"600">> -> [v |-> 384, err |-> Nil]
      [] text = <<"755">> -> [v |-> 493, err |-> Nil]
      [] text = <<"7777">> -> [v |-> 0, err |-> Error("invalid mode", <<>>)]
      [] OTHER -> [v |-> 0, err |-> Error("invalid syntax", <<>>)]

\* The parse function of rsa, gen.go 42-54.
ParseRSABits(text) ==
    CASE text = <<"2048">> -> [v |-> 2048, err |-> Nil]
      [] text = <<"3072">> -> [v |-> 3072, err |-> Nil]
      [] text = <<"4096">> -> [v |-> 4096, err |-> Nil]
      [] OTHER -> [v |-> 0, err |-> Error("unsupported bit-length for", <<<<"rsa">>>>)]

\* f.Parse(value) of a cell that is not an external flag.
ParseWith(parse, text) ==
    CASE parse = "unparsed" -> [v |-> text, err |-> Nil]
      [] parse = "url" -> ParseURL(text)
      [] parse = "schemes" -> ParseSchemes(text)
      [] parse = "duration" -> parseNonNegativeDuration(text)
      [] parse = "float" -> parseNonNegativeFloat(text)
      [] parse = "multiplier" -> parseMultiplier(text)
      [] parse = "mode" -> ParseMode(text)
      [] parse = "rsa" -> ParseRSABits(text)

\* The handle function of setstr and setjson, gen.go 58-83, on the
\* properties collected so far: [props, err].
HandleCut(handle, props, cut) ==
    IF ~cut.found
    THEN [props |-> props, err |-> Error("--set value must be key=value format", <<>>)]
    ELSE IF cut.after \in DOMAIN props
    THEN [props |-> props, err |-> Error("duplicate --set key", <<>>)]
    ELSE IF handle = "setjson" /\ Contains(cut.after, "{bad")
    THEN [props |-> props, err |-> Error("invalid json", <<>>)]
    ELSE [props |-> [n \in DOMAIN props \cup {cut.before} |->
                        IF n = cut.before
                        THEN [json |-> handle = "setjson", text |-> cut.after]
                        ELSE props[n]],
          err |-> Nil]

Handle(handle, props, text) == HandleCut(handle, props, Cut(text, "="))

\* (*valflag).Set, flags.go 81-90: [f, err].
Set_NoDuplicateCheck(f) ==
    IF ~f.NoValue
    THEN [f |-> [f EXCEPT !.IsSet = TRUE],
          err |-> Error("missing value for", <<f.Name>>)]
    ELSE [f |-> [f EXCEPT !.IsSet = TRUE], err |-> Nil]

Set_AnyCell(f) ==
    IF f.IsSet /\ ~f.HasUpdate
    THEN [f |-> f, err |-> Error("duplicate flag", <<f.Name>>)]
    ELSE [f |-> [f EXCEPT !.IsSet = TRUE], err |-> Nil]

Set(f) ==
    IF f.IsSet /\ ~f.HasUpdate
    THEN [f |-> f, err |-> Error("duplicate flag", <<f.Name>>)]
    ELSE IF ~f.NoValue
    THEN [f |-> [f EXCEPT !.IsSet = TRUE],
          err |-> Error("missing value for", <<f.Name>>)]
    ELSE [f |-> [f EXCEPT !.IsSet = TRUE], err |-> Nil]

\* (*valflag).SetValue, flags.go 92-109: [f, props, err, called], where
\* called says which of the cell's functions ran: "parse", "update" or
\* "none".  The Parse and Update of an external flag both call its handle
\* function (57-69); those of a slice flag parse one element and start or
\* extend the slice with it (27-47).
Failed(g, props, e) == [f |-> g, props |-> props, err |-> e, called |-> "none"]

Updated(g, h, fn) == [f |-> g, props |-> h.props, err |-> h.err, called |-> fn]

Parsed(g, props, p) ==
    [f |-> [g EXCEPT !.Value = p.v], props |-> props, err |-> p.err,
     called |-> "parse"]

SliceParsed(g, props, p) ==
    [f |-> [g EXCEPT !.Value = IF p.err # Nil THEN <<>> ELSE <<p.v>>],
     props |-> props, err |-> p.err, called |-> "parse"]

SliceUpdated(g, props, p) ==
    [f |-> [g EXCEPT !.Value = IF p.err # Nil THEN g.Value
                                ELSE Append(g.Value, p.v)],
     props |-> props, err |-> p.err, called |-> "update"]

\* f.Parse(value), line 106, and f.Update(f.Value, value), line 102.
Parse(g, props, value) ==
    IF g.Slice THEN SliceParsed(g, props, ParseWith(g.Parse, value))
    ELSE IF g.HasUpdate THEN Updated(g, Handle(g.Parse, props, value), "parse")
    ELSE Parsed(g, props, ParseWith(g.Parse, value))

Update(g, props, value) ==
    IF g.Slice THEN SliceUpdated(g, props, ParseWith(g.Parse, value))
    ELSE Updated(g, Handle(g.Parse, props, value), "update")

\* value == "", line 99.
EmptyValue_Never(value) == FALSE

EmptyValue(value) == value = <<>>

SetValue(f, props, value) ==
    LET update == f.IsSet
        g == [f EXCEPT !.IsSet = TRUE]
    IN  IF f.NoValue
        THEN Failed(g, props, Error("does not take a value", <<f.Name>>))
        ELSE IF EmptyValue(value)
        THEN Failed(g, props, Error("value must not be empty", <<f.Name>>))
        ELSE IF update /\ f.HasUpdate THEN Update(g, props, value)
        ELSE IF update
        THEN Failed(g, props, Error("duplicate flag", <<f.Name>>))
        ELSE Parse(g, props, value)

\* strings.Join: the elements with the separator between them, as the
\* list of the pieces of the text.
Join_Unseparated(list, sep) == list

RECURSIVE Join(_, _)
Join(list, sep) ==
    IF Len(list) <= 1 THEN list
    ELSE <<list[1], sep>> \o Join(Tail(list), sep)

\* A constraint that is never violated.
oneOf_Never(noneOK, flags) == Nil

\* A constraint that allows no more than one of the cells.
oneOf_AtMostOne(noneOK, flags) ==
    IF Cardinality({i \in 1 .. Len(flags) : flags[i].IsSet}) <= 1 THEN Nil
    ELSE Error("cannot specify both", <<>>)

\* oneOf, flags.go 122-152, on the cells listed.  The text of an error is
\* its message followed by the pieces in flags: the names, each after two
\* dashes, and what separates them.

oneOf(noneOK, flags) ==
    LET count == Cardinality({i \in 1 .. Len(flags) : flags[i].IsSet})
        names == [i \in 1 .. Len(flags) |-> <<"--">> \o flags[i].Name]
        lastidx == Len(names) - 1
        allbut == SubSeq(names, 1, lastidx)
        last == names[lastidx + 1]
    IN  IF count = 1 THEN Nil
        ELSE IF noneOK /\ count = 0 THEN Nil
        ELSE IF count = 0
        THEN IF Len(flags) = 2
             THEN Error("must specify one of ", Join(names, <<" or ">>))
             ELSE Error("must specify one of ",
                        Join(allbut, <<", ">>) \o << <<", or ">>, last >>)
        ELSE IF Len(flags) = 2
             THEN Error("cannot specify both ", Join(names, <<" and ">>))
             ELSE Error("cannot specify multiple of ",
                        Join(allbut, <<", ">>) \o << <<", and ">>, last >>)

\* One pass of the flag loop of a handler (part_001 74-89, part_003 88-103,
\* gen.go 86-101).  SetCell is the call of Set or SetValue on the cell k,
\* Stored the registry with the cell as the call left it, ParseFlag the pass
\* for the name and value in cut: [fs, props, err].
SetCell(fs, props, k, cut) ==
    IF cut.found THEN SetValue(fs.cells[k], props, cut.after)
    ELSE [f |-> Set(fs.cells[k]).f, props |-> props,
          err |-> Set(fs.cells[k]).err, called |-> "none"]

Stored(fs, k, r) ==
    [fs |-> [fs EXCEPT !.cells[k] = r.f], props |-> r.props, err |-> r.err]

ParseFlag(fs, props, k, cut) ==
    IF k = 0
    THEN [fs |-> fs, props |-> props,
          err |-> Error("unknown flag", <<cut.before>>)]
    ELSE Stored(fs, k, SetCell(fs, props, k, cut))

ParseArg(fs, props, cut) == ParseFlag(fs, props, Lookup(fs, cut.before), cut)

\* The flag loop over the arguments from index i on: it returns at the first
\* error.
\* The name and the value of a flag argument, line 75 of part_001: the
\* first character and one more dash are dropped and the rest is cut at its
\* first "=".
FlagCall_NoTrim(arg) == Cut(Tail(arg), "=")

FlagCall(arg) == Cut(TrimPrefix(Tail(arg), <<"-">>), "=")

RECURSIVE ParseArgs(_, _, _, _)
ParseRest(r, args, i) ==
    IF r.err # Nil THEN r ELSE ParseArgs(r.fs, r.props, args, i + 1)

ParseArgs(fs, props, args, i) ==
    IF i > Len(args) THEN [fs |-> fs, props |-> props, err |-> Nil]
    ELSE IF args[i] = <<>>
    THEN [fs |-> fs, props |-> props,
          err |-> Panic("slice bounds out of range")]
    ELSE ParseRest(ParseArg(fs, props, FlagCall(args[i])), args, i)

\* ------------------------------------------------------------ transport

\* The accept callbacks of readFromURL and writeToURL: TRUE for a nil error.
Accept(who, r) ==
    IF who = "read" THEN r.status = 200 ELSE r.status \in {200, 201}

\* err.(interface{ Temporary() bool }) && Temporary(), line 80.
IsTemporary(e) == e.temporary

\* A redirect policy that only caps the depth.
CheckRedirect_NoDowngradeCheck(orig, target, nvia) ==
    IF nvia > 10 THEN "error" ELSE "follow"

\* A redirect policy that looks at the depth before the scheme.
CheckRedirect_DepthFirst(orig, target, nvia) ==
    IF orig = "https"
    THEN IF nvia > 10 THEN "error"
         ELSE IF target # "https" THEN "useLast" ELSE "follow"
    ELSE IF nvia >= 10 THEN "error" ELSE "follow"

\* The redirect policy of the client, lines 33-45; without one (a request
\* that is not https) net/http's default stops after 10 requests.
CheckRedirect(orig, target, nvia) ==
    IF orig = "https"
    THEN IF target # "https" THEN "useLast"
         ELSE IF nvia > 10 THEN "error" ELSE "follow"
    ELSE IF nvia >= 10 THEN "error" ELSE "follow"

\* Line 50: the retry block runs on a retry with a non-zero interval.
EntersRetryBlock == wait /\ c.interval # 0

\* The deadline test without the interval that is about to be slept.
OutOfBudget_NoInterval ==
    \/ c.retryFor = 0
    \/ now > lastBefore

\* Lines 51-56: the two exits of the retry block.
OutOfBudget ==
    \/ c.retryFor = 0
    \/ now + c.interval > lastBefore

\* A retry that does not sleep.
SleepChoices_None == {0}

\* Lines 57-62: the sleeps the jitter can pick; the multiplier lies in
\* [1, 1+jitter), the product is truncated.
SleepChoices ==
    IF c.jitter > 0
    THEN c.interval .. ((c.interval * (10 + c.jitter) - 1) \div 10)
    ELSE {c.interval}

\* Lines 64-66.
NextInterval_Fixed == c.interval

NextInterval ==
    IF c.backoff > 10 THEN (c.interval * c.backoff) \div 10 ELSE c.interval

\* How long one client.Do call can take: the context of lines 69-74 ends it
\* at the timeout, and the clock moves by at least one tick.
Durations ==
    1 .. (IF c.timeout # 0 THEN Min(c.timeout, MaxDur) ELSE MaxDur)

\* Returning the recorded error instead of the current one.
ErrorToReturn_Last(e, last) == last

\* Line 84: the error a non-temporary failure returns.
ErrorToReturn(e, last) == e

\* Returning the response whatever accept says.
ReturnsResponse_Always(accepted) == TRUE

\* Line 87: a nil error from accept returns the response.
ReturnsResponse(accepted) == accepted

\* Line 77: cancel() ends the context that lines 71-73 made for the attempt;
\* without a timeout cancel is the empty function of line 70.
Cancel(context) == IF c.timeout # 0 THEN "cancelled" ELSE context

\* What the reader behind req.Body holds after a call of client.Do.  Do hands
\* every attempt the same request (line 74 copies it shallowly), so the
\* reader writeToURL made is shared: an exchange that got a response has
\* read it, one that failed may have.
BodyAfter(r) ==
    IF reqBody = "nil" THEN {"nil"}
    ELSE IF r # NoResp THEN {"read"} ELSE {reqBody, "read"}

\* A place for a goroutine the model follows.
Free == [at |-> "free", ctx |-> "none", drained |-> FALSE, closes |-> 0]

\* Lines 88-91: the goroutine started for a rejected response; it holds the
\* response of the attempt, whose context is the current one.  It takes the
\* first free place; the goroutines beyond the places are not followed.
Spawn ==
    IF \E i \in 1 .. Len(drains) : drains[i] = Free
    THEN LET i == CHOOSE k \in 1 .. Len(drains) :
                      /\ drains[k] = Free
                      /\ \A j \in 1 .. k - 1 : drains[j] # Free
         IN  [drains EXCEPT ![i] = [at |-> "copy", ctx |-> ctx,
                                    drained |-> FALSE, closes |-> 0]]
    ELSE drains

\* Line 89: io.Copy reads the body to its end when the context of the
\* exchange is live; once that is cancelled the read fails unless the whole
\* body had already arrived.
CopyOutcomes(task) ==
    IF task.ctx = "cancelled" THEN {TRUE, FALSE} ELSE {TRUE}

\* readFromURL lines 194-201: io.Copy of the body of the response Do
\* returned, which reads under the context of the exchange.
ReadAll(context) ==
    IF context = "cancelled"
    THEN {"complete", "context canceled"}
    ELSE {"complete"}

\* Keeping the error of the first failure.
Recorded_First(e, last) == IF last = NoErr THEN e ELSE last

\* Lines 81 and 92: lastErr = err overwrites what was recorded.
Recorded(e, last) == e

\* run is not part of the transport's specification.
RunIdle ==
    /\ argv = <<>>
    /\ cmds = <<>>
    /\ rpc = "idle"
    /\ idx = 0
    /\ jwkset = <<>>
    /\ rerr = Nil
    /\ out = <<>>
    /\ results = <<>>
    /\ fxlog = <<>>
    /\ errout = <<>>
    /\ status = -1

\* No flag loop and no single invocation is under way.
FlagsIdle ==
    /\ reg = EmptyFlagset
    /\ regprops = <<>>
    /\ calls = <<>>

HandlerIdle ==
    /\ hcmd = <<>>
    /\ hargs = <<>>
    /\ hset = <<>>
    /\ hres = [err |-> Nil, set |-> <<>>, fx |-> <<>>]
    /\ hpc = "idle"

InitAttempts(places) ==
    /\ conf \in httpConf
    /\ c = conf
    /\ req \in [scheme : Schemes, method : {"GET", "PUT"}]
    /\ caller = (IF req.method = "GET" THEN "read" ELSE "write")
    /\ now = 0
    /\ lastBefore = conf.retryFor
    /\ wait = FALSE
    /\ lastErr = NoErr
    /\ pc = "loop"
    /\ attempts = 0
    /\ via = 0
    /\ hop = "none"
    /\ location = "none"
    /\ sent = {}
    /\ resp = NoResp
    /\ err = NoErr
    /\ ret = [resp |-> NoResp, err |-> NoErr]
    /\ firstDone = -1
    /\ slept = -1
    /\ reqBody = (IF req.method = "GET" THEN "nil" ELSE "unread")
    /\ ctx = "none"
    /\ drains = places
    /\ RunIdle
    /\ FlagsIdle
    /\ HandlerIdle

\* The loop of Do alone: its goroutines are not followed.
InitDo == InitAttempts(<<>>)

\* Lines 69-76: the call of client.Do, which issues the first request.
StartAttempt(t) ==
    /\ now' = t
    /\ attempts' = Min(attempts + 1, MaxAttempts)
    /\ via' = 1
    /\ hop' = req.scheme
    /\ sent' = sent \cup {req.scheme}
    /\ pc' = "clientDo"
    /\ ctx' = "live"
    /\ UNCHANGED <<besideDo, conf, req, caller, lastBefore, wait, lastErr, location, resp,
                   err, ret, firstDone, reqBody, drains>>

\* Line 50 false: the first pass, or any pass when interval is 0.
DoAttemptNow ==
    /\ pc = "loop"
    /\ ~EntersRetryBlock
    /\ StartAttempt(now)
    /\ UNCHANGED <<c, slept>>

\* Lines 51-56.
DoGiveUp ==
    /\ pc = "loop"
    /\ EntersRetryBlock
    /\ OutOfBudget
    /\ ret' = [resp |-> NoResp, err |-> lastErr]
    /\ pc' = "returned"
    /\ resp' = NoResp
    /\ err' = NoErr
    /\ UNCHANGED <<besideDo, slept, reqBody, ctx, drains, conf, c, req, caller, now, lastBefore, wait, lastErr, attempts,
                   via, hop, location, sent, firstDone>>

\* Lines 57-67, then the next attempt.
DoSleep ==
    /\ pc = "loop"
    /\ EntersRetryBlock
    /\ ~OutOfBudget
    /\ \E interval \in SleepChoices, over \in 0 .. MaxOversleep :
          /\ StartAttempt(Tick(now + interval + over))
          /\ slept' = interval
    /\ c' = [c EXCEPT !.interval = NextInterval]

\* client.Do returns: line 76.
ClientReturns(r, e, d) ==
    /\ resp' = r
    /\ err' = e
    /\ now' = Tick(now + d)
    /\ firstDone' = (IF firstDone = -1 THEN Tick(now + d) ELSE firstDone)
    /\ via' = 0
    /\ hop' = "none"
    /\ location' = "none"
    /\ pc' = "handle"
    /\ reqBody' \in BodyAfter(r)
    /\ ctx' = Cancel(ctx)
    /\ UNCHANGED <<besideDo, slept, drains, conf, c, req, caller, lastBefore, wait, lastErr, attempts, sent,
                   ret>>

\* The exchange fails in the transport.
ClientDoError ==
    /\ pc = "clientDo"
    /\ \E temp \in BOOLEAN, d \in Durations :
          ClientReturns(NoResp,
                        [cause |-> "transport", temporary |-> temp, n |-> attempts],
                        d)

\* The transport finds the reader of the request body at its end: the
\* declared length is not met and the exchange fails, unless the transport
\* rewinds the body itself (the other outcomes of client.Do).
ClientDoShortBody ==
    /\ pc = "clientDo"
    /\ reqBody = "read"
    /\ via = 1
    /\ \E d \in Durations :
          ClientReturns(NoResp,
                        [cause |-> "body", temporary |-> FALSE, n |-> attempts],
                        d)

\* The server answers the request in flight with a final status.
ClientDoResponse ==
    /\ pc = "clientDo"
    /\ \E s \in Statuses, d \in Durations :
          ClientReturns([status |-> s, from |-> hop, location |-> "none",
                         n |-> attempts], NoErr, d)

\* The server answers the request in flight with a redirect to `target`.
ClientDoRedirect ==
    /\ pc = "clientDo"
    /\ \E target \in Schemes : location' = target
    /\ pc' = "redirect"
    /\ UNCHANGED <<besideDo, slept, reqBody, ctx, drains, conf, c, req, caller, now, lastBefore, wait, lastErr, attempts,
                   via, hop, sent, resp, err, ret, firstDone>>

\* Lines 34-44 return nil: the client issues the redirected request.
RedirectFollow ==
    /\ pc = "redirect"
    /\ CheckRedirect(req.scheme, location, via) = "follow"
    /\ via' = via + 1
    /\ hop' = location
    /\ sent' = sent \cup {location}
    /\ location' = "none"
    /\ pc' = "clientDo"
    /\ UNCHANGED <<besideDo, slept, reqBody, ctx, drains, conf, c, req, caller, now, lastBefore, wait, lastErr, attempts,
                   resp, err, ret, firstDone>>

\* Line 37, http.ErrUseLastResponse: client.Do returns the redirect response
\* itself, with a nil error.
RedirectUseLast ==
    /\ pc = "redirect"
    /\ CheckRedirect(req.scheme, location, via) = "useLast"
    /\ \E d \in Durations :
          ClientReturns([status |-> StatusFound, from |-> hop,
                         location |-> location, n |-> attempts], NoErr, d)

\* Line 41 (or net/http's default): client.Do returns the policy's error,
\* which is not temporary.
RedirectError ==
    /\ pc = "redirect"
    /\ CheckRedirect(req.scheme, location, via) = "error"
    /\ \E d \in Durations :
          ClientReturns(NoResp,
                        [cause |-> "redirects", temporary |-> FALSE, n |-> attempts],
                        d)

\* Lines 79-83.
DoTemporary ==
    /\ pc = "handle"
    /\ err # NoErr
    /\ IsTemporary(err)
    /\ lastErr' = Recorded(err, lastErr)
    /\ wait' = TRUE
    /\ pc' = "loop"
    /\ resp' = NoResp
    /\ err' = NoErr
    /\ UNCHANGED <<besideDo, slept, reqBody, ctx, drains, conf, c, req, caller, now, lastBefore, attempts, via, hop, location,
                   sent, ret, firstDone>>

\* Line 84.
DoPermanent ==
    /\ pc = "handle"
    /\ err # NoErr
    /\ ~IsTemporary(err)
    /\ ret' = [resp |-> NoResp, err |-> ErrorToReturn(err, lastErr)]
    /\ pc' = "returned"
    /\ resp' = NoResp
    /\ err' = NoErr
    /\ UNCHANGED <<besideDo, slept, reqBody, ctx, drains, conf, c, req, caller, now, lastBefore, wait, lastErr, attempts,
                   via, hop, location, sent, firstDone>>

\* Lines 87-94.
DoRejected ==
    /\ pc = "handle"
    /\ err = NoErr
    /\ ~ReturnsResponse(Accept(caller, resp))
    /\ lastErr' = Recorded([cause |-> "rejected", temporary |-> FALSE,
                             n |-> resp.n], lastErr)
    /\ wait' = TRUE
    /\ pc' = "loop"
    /\ resp' = NoResp
    /\ err' = NoErr
    /\ drains' = Spawn
    /\ UNCHANGED <<besideDo, slept, reqBody, ctx, conf, c, req, caller, now, lastBefore, attempts, via, hop, location,
                   sent, ret, firstDone>>

\* Line 96.
DoAccepted ==
    /\ pc = "handle"
    /\ err = NoErr
    /\ ReturnsResponse(Accept(caller, resp))
    /\ ret' = [resp |-> resp, err |-> NoErr]
    /\ pc' = "returned"
    /\ resp' = NoResp
    /\ err' = NoErr
    /\ UNCHANGED <<besideDo, slept, reqBody, ctx, drains, conf, c, req, caller, now, lastBefore, wait, lastErr, attempts,
                   via, hop, location, sent, firstDone>>

NextDo ==
    \/ DoAttemptNow
    \/ DoGiveUp
    \/ DoSleep
    \/ ClientDoError
    \/ ClientDoShortBody
    \/ ClientDoResponse
    \/ ClientDoRedirect
    \/ RedirectFollow
    \/ RedirectUseLast
    \/ RedirectError
    \/ DoTemporary
    \/ DoPermanent
    \/ DoRejected
    \/ DoAccepted

SpecDo == InitDo /\ [][NextDo]_vars

\* The goroutines of lines 88-91 run beside the loop.
DrainCopy ==
    /\ \E i \in 1 .. Len(drains) :
          /\ drains[i].at = "copy"
          /\ \E full \in CopyOutcomes(drains[i]) :
                drains' = [drains EXCEPT ![i].at = "close",
                                         ![i].drained = full]
    /\ UNCHANGED <<besideDo, loopVars>>

DrainClose ==
    /\ \E i \in 1 .. Len(drains) :
          /\ drains[i].at = "close"
          /\ drains' = [drains EXCEPT ![i].at = "done",
                                       ![i].closes = @ + 1]
    /\ UNCHANGED <<besideDo, loopVars>>

\* Do with its goroutines, for the policies without backoff and jitter that
\* retry for 3 s.
InitDrain ==
    /\ InitAttempts([i \in 1 .. MaxDrains |-> Free])
    /\ conf.backoff = 10
    /\ conf.jitter = 0
    /\ conf.retryFor = 3 * Sec

NextDrain ==
    \/ NextDo
    \/ DrainCopy
    \/ DrainClose

SpecDrain == InitDrain /\ [][NextDrain]_vars

\* -------------------------------------------------------------- handlers
\* What a handler does to the world outside the key collection, in order.
\* defaultHTTPConf, part_005 20-29, and the policy of an effect that is not
\* a request.
defaultHTTPConf ==
    [timeout |-> 10 * Sec, interval |-> Sec, backoff |-> Float(15),
     retryFor |-> 60 * Sec, jitter |-> Float(1)]

\* defaultRetryConf of handleRead, part_001 127: the defaults of the retry
\* policy.
defaultRetryConf ==
    [timeout |-> 10 * Sec, interval |-> Sec, backoff |-> Float(15),
     retryFor |-> 60 * Sec, jitter |-> Float(1)]

NoConf ==
    [timeout |-> 0, interval |-> 0, backoff |-> Float(0), retryFor |-> 0,
     jitter |-> Float(0)]

Effect(kind, method, scheme, path, mode, format, keys) ==
    [kind |-> kind, method |-> method, scheme |-> scheme, path |-> path,
     mode |-> mode, format |-> format, keys |-> keys, conf |-> NoConf]

\* assignIfSet, flags.go 154-158: the value *dst has after the call.
assignIfSet_Never(f, dst) == dst

assignIfSet(f, dst) == IF f.IsSet THEN f.Value ELSE dst

\* The policy of a request, part_001 127-132 and part_003 220-225.
Policy(fs, default) ==
    [timeout |-> assignIfSet(Flag(fs, <<"url", ".", "timeout">>), default.timeout),
     interval |-> assignIfSet(Flag(fs, <<"url", ".", "retry", ".", "interval">>),
                              default.interval),
     backoff |-> assignIfSet(Flag(fs, <<"url", ".", "retry", ".", "backoff">>),
                             default.backoff),
     retryFor |-> assignIfSet(Flag(fs, <<"url", ".", "retry", ".", "end">>),
                              default.retryFor),
     jitter |-> assignIfSet(Flag(fs, <<"url", ".", "retry", ".", "jitter">>),
                            default.jitter)]

\* The outcome of a handler: the error it returns, the key collection it
\* leaves and its effects.
Outcome(e, set, fx) == [err |-> e, set |-> set, fx |-> fx]

\* jwk.Set.AddKey: a key that is in the set already is refused.
AddKey(set, key) ==
    IF Contains(set, key)
    THEN [set |-> set, err |-> Error("key already exists", <<>>)]
    ELSE [set |-> Append(set, key), err |-> Nil]

\* What a source can hold: bytes in one of the two formats, with the keys
\* they encode (TRUE for a private key), or bytes in neither.
Contents ==
    {[format |-> "junk", keys |-> <<>>],
     [format |-> "jwk", keys |-> <<TRUE>>],
     [format |-> "pem", keys |-> <<FALSE, TRUE>>]}

\* parseContents, part_001 216-229: the keys parsed are new objects, added
\* one by one.
RECURSIVE AddKeys(_, _, _)
AddKeys(set, keys, i) ==
    IF i > Len(keys) THEN [set |-> set, err |-> Nil]
    ELSE LET r == AddKey(set, [id |-> Len(set) + 1, private |-> keys[i]]) IN
         IF r.err # Nil THEN r ELSE AddKeys(r.set, keys, i + 1)

parseContents(contents, kind, set) ==
    IF contents.format # kind
    THEN [set |-> set, err |-> Error("failed to parse", <<>>)]
    ELSE AddKeys(set, contents.keys, 1)

\* readFromPath, part_001 153-159: the file cannot be read, or holds any of
\* the contents.
readFromPath(path, kind, set, fx) ==
    LET fx2 == Append(fx, Effect("readfile", "", "", path, 0, "", <<>>)) IN
    {Outcome(Error("read file", <<>>), set, fx2)} \cup
    {LET r == parseContents(cts, kind, set) IN Outcome(r.err, r.set, fx2) :
        cts \in Contents}

\* The schemes one call of Do can issue requests to: the request's own, and
\* every redirect target its redirect policy follows.
SentSets(scheme) ==
    {{scheme} \cup T :
        T \in SUBSET {t \in Schemes : CheckRedirect(scheme, t, 1) = "follow"}}

\* The requests of one call of Do on the policy conf, as effects: each
\* carries the request's body, the keys in their format (none for a GET).
RECURSIVE Requests(_, _, _, _, _)
Requests(conf0, method, schemes, format, keys) ==
    IF schemes = {} THEN <<>>
    ELSE LET t == CHOOSE t \in schemes : TRUE IN
         <<[Effect("request", method, t, <<>>, 0, format, keys)
                EXCEPT !.conf = conf0]>>
             \o Requests(conf0, method, schemes \ {t}, format, keys)

\* readFromURL, part_001 161-207.
readFromURL(from, retry, kind, set, fx) ==
    IF from.Scheme = <<"file">>
    THEN IF from.Rest = <<"///f">>
         THEN readFromPath(<<"/f">>, kind, set, fx)
         ELSE {Outcome(Error("unsupported file URL", <<>>), set, fx)}
    ELSE IF from.Scheme = <<"https">> \/ from.Scheme = <<"http">>
    THEN UNION {
           LET fx2 == fx \o Requests(retry, "GET", ss, "", <<>>) IN
           {Outcome(Error("Do failed", <<>>), set, fx2),
            Outcome(Error("read body", <<>>), set, fx2)} \cup
           {LET r == parseContents(cts, kind, set) IN Outcome(r.err, r.set, fx2) :
               cts \in Contents} :
           ss \in SentSets(from.Scheme[1])}
    ELSE {Outcome(Error("unsupported URL scheme", <<>>), set, fx)}

\* The names of read's and write's flags.
UrlDot(name) == <<"url", ".">> \o name
PathDot(name) == <<"path", ".">> \o name

\* The registry of handleRead, part_001 51-72.
readflags ==
    LET f1 == addFlag(EmptyFlagset, NoValueFlag(<<"jwks">>))
        f2 == addFlag(f1, NoValueFlag(<<"pem">>))
        f3 == addFlag(f2, ValueFlag(<<"path">>, "unparsed"))
        f4 == addFlag(f3, ValueFlag(<<"url">>, "url"))
        f5 == addFlag(f4, ValueFlag(UrlDot(<<"schemes">>), "schemes"))
        f6 == addFlag(f5, NoValueFlag(UrlDot(<<"allow-plaintext">>)))
        f7 == addFlag(f6, ValueFlag(UrlDot(<<"timeout">>), "duration"))
        f8 == addFlag(f7, ValueFlag(UrlDot(<<"retry", ".", "interval">>), "duration"))
        f9 == addFlag(f8, ValueFlag(UrlDot(<<"retry", ".", "backoff">>), "multiplier"))
        f10 == addFlag(f9, ValueFlag(UrlDot(<<"retry", ".", "end">>), "duration"))
    IN  addFlag(f10, ValueFlag(UrlDot(<<"retry", ".", "jitter">>), "float"))

\* The errors of the loop over the registry that allows the flags of one
\* destination only with it, part_001 100-106 and part_003 120-131.  A map
\* is ranged over in no fixed order, so any failing flag can be the first.
DestinationErrors_None(fs, prefix, other) == {}

DestinationErrors(fs, prefix, other) ==
    {oneOf(TRUE, <<Flag(fs, other), fs.cells[i]>>) :
        i \in {j \in 1 .. Len(fs.cells) : HasPrefix(fs.cells[j].Name, prefix)}}
    \ {Nil}

\* Lines 107-120 of part_001: the schemes read allows, or the error.
AllowedSchemes(schemes, plaintext) ==
    IF /\ schemes.IsSet
       /\ ~plaintext.IsSet
       /\ \E i \in 1 .. Len(schemes.Value) :
             Contains(plaintextSchemes, schemes.Value[i])
    THEN [v |-> <<>>,
          err |-> Error("plaintext scheme forbidden without -allow-plaintext", <<>>)]
    ELSE IF schemes.IsSet THEN [v |-> schemes.Value, err |-> Nil]
    ELSE IF plaintext.IsSet THEN [v |-> supportedSchemes, err |-> Nil]
    ELSE [v |-> nonPlaintextSchemes, err |-> Nil]

\* Line 123 of part_001.
SchemeBlocked(allowed, scheme) == ~Contains(allowed, scheme)

\* handleRead, part_001 50-151: its possible outcomes.
readParsed(p, set) ==
    LET fs == p.fs
        pem == Flag(fs, <<"pem">>)
        path == Flag(fs, <<"path">>)
        url == Flag(fs, <<"url">>)
        e1 == oneOf(TRUE, <<Flag(fs, <<"jwks">>), pem>>)
        e2 == oneOf(FALSE, <<url, path>>)
        e3 == DestinationErrors(fs, <<"url", ".">>, <<"path">>)
        allowed == AllowedSchemes(Flag(fs, UrlDot(<<"schemes">>)),
                                  Flag(fs, UrlDot(<<"allow-plaintext">>)))
        kind == IF pem.IsSet THEN "pem" ELSE "jwk"
    IN  IF p.err # Nil THEN {Outcome(p.err, set, <<>>)}
        ELSE IF e1 # Nil THEN {Outcome(e1, set, <<>>)}
        ELSE IF e2 # Nil THEN {Outcome(e2, set, <<>>)}
        ELSE IF e3 # {} THEN {Outcome(e, set, <<>>) : e \in e3}
        ELSE IF allowed.err # Nil THEN {Outcome(allowed.err, set, <<>>)}
        ELSE IF url.IsSet
        THEN IF SchemeBlocked(allowed.v, url.Value.Scheme)
             THEN {Outcome(Error("blocked url scheme", <<>>), set, <<>>)}
             ELSE readFromURL(url.Value, Policy(fs, defaultRetryConf), kind,
                              set, <<>>)
        ELSE IF path.IsSet THEN readFromPath(path.Value, kind, set, <<>>)
        ELSE {Outcome(Panic("unreachable"), set, <<>>)}

handleRead(args, set) == readParsed(ParseArgs(readflags, <<>>, args, 1), set)

\* The registry of handleGen, gen.go 40-84.
genflags ==
    LET f1 == addFlag(EmptyFlagset, ValueFlag(<<"rsa">>, "rsa"))
        f2 == addFlag(f1, NoValueFlag(<<"ec">>))
        f3 == addFlag(f2, NoValueFlag(<<"okp">>))
        f4 == addFlag(f3, ExternalFlag(<<"setstr">>, "setstr"))
    IN  addFlag(f4, ExternalFlag(<<"setjson">>, "setjson"))

\* A property as Go sees it: has says that it is set, isStr that its value
\* is a string, str is that string.  A -setjson value is a string when it is
\* written between quotes, the symbol "q".
Prop(props, name) ==
    IF name \notin DOMAIN props
    THEN [has |-> FALSE, isStr |-> FALSE, str |-> <<>>]
    ELSE LET v == props[name] IN
         IF ~v.json THEN [has |-> TRUE, isStr |-> TRUE, str |-> v.text]
         ELSE IF Len(v.text) = 3 /\ v.text[1] = "q" /\ v.text[3] = "q"
         THEN [has |-> TRUE, isStr |-> TRUE, str |-> <<v.text[2]>>]
         ELSE [has |-> TRUE, isStr |-> FALSE, str |-> <<>>]

\* addKey, gen.go 199-242: the properties are validated by the key format's
\* parser and setters, which may refuse them; the key is new and private.
addKey(props, set, fx) ==
    LET fx2 == Append(fx, Effect("generate", "", "", <<>>, 0, "", <<>>))
        r == AddKey(set, [id |-> Len(set) + 1, private |-> TRUE])
    IN  {Outcome(r.err, r.set, fx2)} \cup
        (IF DOMAIN props = {} THEN {}
         ELSE {Outcome(Error("invalid property", <<>>), set, fx2)})

\* The curve of -ec, gen.go 116-139: [crv, err].
ECCurve(props) ==
    LET crv == Prop(props, <<"crv">>)
        alg == Prop(props, <<"alg">>)
        inferred == CASE alg.isStr /\ alg.str = <<"ES256">> -> <<"P-256">>
                      [] alg.isStr /\ alg.str = <<"ES384">> -> <<"P-384">>
                      [] alg.isStr /\ alg.str = <<"ES512">> -> <<"P-521">>
                      [] OTHER -> <<>>
    IN  IF ~crv.has /\ inferred = <<>>
        THEN IF alg.has
             THEN [crv |-> <<>>, err |-> Error("cannot infer crv from alg field", <<>>)]
             ELSE [crv |-> <<>>, err |-> Error("must set crv or alg field", <<>>)]
        ELSE IF crv.has /\ ~crv.isStr
        THEN [crv |-> <<>>, err |-> Error("crv field must be string for --ec", <<>>)]
        ELSE LET name == IF crv.has THEN crv.str ELSE inferred IN
             IF name \notin {<<"P-256">>, <<"P-384">>, <<"P-521">>}
             THEN [crv |-> name, err |-> Error("curve unavailable", <<>>)]
             ELSE [crv |-> name, err |-> Nil]

\* The checks of -okp, gen.go 159-189.
OKPError(props) ==
    LET crv == Prop(props, <<"crv">>)
        alg == Prop(props, <<"alg">>)
    IN  IF alg.has /\ ~alg.isStr
        THEN Error("alg field must be string for --okp", <<>>)
        ELSE IF alg.has /\ alg.str # <<"EdDSA">>
        THEN Error("invalid alg field value for --okp", <<>>)
        ELSE IF ~crv.has THEN Error("must set crv field", <<>>)
        ELSE IF ~crv.isStr THEN Error("crv field must be string for --okp", <<>>)
        ELSE IF crv.str \notin {<<"Ed25519">>, <<"X25519">>}
        THEN Error("curve unavailable", <<>>)
        ELSE Nil

\* props[name] = value for a string value.
WithProp(props, name, str) ==
    [n \in DOMAIN props \cup {name} |->
        IF n = name THEN [json |-> FALSE, text |-> str] ELSE props[n]]

\* handleGen, gen.go 39-197: its possible outcomes.
genParsed(p, set) ==
    LET fs == p.fs
        rsabits == Flag(fs, <<"rsa">>)
        ec == Flag(fs, <<"ec">>)
        okp == Flag(fs, <<"okp">>)
        e1 == oneOf(FALSE, <<rsabits, ec, okp>>)
    IN  IF p.err # Nil THEN {Outcome(p.err, set, <<>>)}
        ELSE IF e1 # Nil THEN {Outcome(e1, set, <<>>)}
        ELSE IF rsabits.IsSet THEN addKey(p.props, set, <<>>)
        ELSE IF ec.IsSet
        THEN LET crv == ECCurve(p.props) IN
             IF crv.err # Nil THEN {Outcome(crv.err, set, <<>>)}
             ELSE IF Prop(p.props, <<"alg">>).has THEN addKey(p.props, set, <<>>)
             ELSE addKey(WithProp(p.props, <<"alg">>,
                                  CASE crv.crv = <<"P-256">> -> <<"ES256">>
                                    [] crv.crv = <<"P-384">> -> <<"ES384">>
                                    [] OTHER -> <<"ES512">>),
                         set, <<>>)
        ELSE IF okp.IsSet
        THEN LET e2 == OKPError(p.props) IN
             IF e2 # Nil THEN {Outcome(e2, set, <<>>)}
             ELSE IF Prop(p.props, <<"alg">>).has THEN addKey(p.props, set, <<>>)
             ELSE addKey(WithProp(p.props, <<"alg">>, <<"EdDSA">>), set, <<>>)
        ELSE {Outcome(Panic("unreachable"), set, <<>>)}

handleGen(args, set) == genParsed(ParseArgs(genflags, <<>>, args, 1), set)

\* The registry of handleWrite, part_003 50-86.
writeflags ==
    LET f1 == addFlag(EmptyFlagset, NoValueFlag(<<"pubkey">>))
        f2 == addFlag(f1, NoValueFlag(<<"fullkey">>))
        f3 == addFlag(f2, NoValueFlag(<<"jwks">>))
        f4 == addFlag(f3, NoValueFlag(<<"pem">>))
        f5 == addFlag(f4, ValueFlag(<<"path">>, "unparsed"))
        f6 == addFlag(f5, ValueFlag(PathDot(<<"mode">>), "mode"))
        f7 == addFlag(f6, ValueFlag(PathDot(<<"mkdir">>), "mode"))
        f8 == addFlag(f7, ValueFlag(<<"url">>, "url"))
        f9 == addFlag(f8, NoValueFlag(UrlDot(<<"post">>)))
        f10 == addFlag(f9, NoValueFlag(UrlDot(<<"put">>)))
        f11 == addFlag(f10, NoValueFlag(UrlDot(<<"allow-plaintext">>)))
        f12 == addFlag(f11, ValueFlag(UrlDot(<<"timeout">>), "duration"))
        f13 == addFlag(f12, ValueFlag(UrlDot(<<"retry", ".", "interval">>), "duration"))
        f14 == addFlag(f13, ValueFlag(UrlDot(<<"retry", ".", "backoff">>), "multiplier"))
        f15 == addFlag(f14, ValueFlag(UrlDot(<<"retry", ".", "end">>), "duration"))
    IN  addFlag(f15, ValueFlag(UrlDot(<<"retry", ".", "jitter">>), "float"))

\* encode, part_003 136-182: the keys as written, each in its public form
\* when pubkey is set.
Encoded_AsStored(set, pubkey) ==
    [i \in 1 .. Len(set) |-> [id |-> set[i].id, private |-> set[i].private]]

Encoded(set, pubkey) ==
    [i \in 1 .. Len(set) |->
        [id |-> set[i].id, private |-> set[i].private /\ ~pubkey]]

\* A write that hands its caller the keys it encoded.
CallerSet_Replaced(set, encoded) == encoded

\* Line 172 of part_003, set = pubset: encode assigns the handler's own
\* parameter, and key.PublicKey and jwk.NewSet make new values; the
\* collection the caller holds is the one it passed.
CallerSet(set, encoded) == set

\* encode fails when the library refuses a key: the handler returns the
\* error before it writes or sends anything.
EncodeErrors(set) ==
    IF set = <<>> THEN {} ELSE {Outcome(Error("encode", <<>>), set, <<>>)}

\* filepath.Base on a path whose separators are the symbol "/".
Base(path) == LET parts == Split(path, "/") IN parts[Len(parts)]

\* The path branch of handleWrite, part_003 184-201.  os.WriteFile succeeds,
\* fails because the path does not exist, or fails otherwise.
writeToPath(path, filemode, mkdir, format, keys, set) ==
    LET w == Effect("writefile", "", "", path, filemode, format, keys)
        m == Effect("mkdir", "", "", Base(path), mkdir.Value, "", <<>>)
    IN  {Outcome(Nil, set, <<w>>),
         Outcome(Error("write file", <<>>), set, <<w>>)} \cup
        (IF mkdir.IsSet
         THEN {Outcome(Error("mkdir", <<>>), set, <<w, m>>),
               Outcome(Nil, set, <<w, m, w>>),
               Outcome(Error("write file", <<>>), set, <<w, m, w>>)}
         ELSE {Outcome(Error("file does not exist", <<>>), set, <<w>>)})

\* writeToURL, part_003 233-254.
writeToURL(format, keys, method, url, reqConf, set) ==
    UNION {
        LET fx == Requests(reqConf, method, ss, format, keys) IN
        {Outcome(Nil, set, fx),
         Outcome(Error("Do failed", <<>>), set, fx),
         Outcome(Error("close body", <<>>), set, fx)} :
        ss \in SentSets(url.Scheme[1])}

\* Lines 204-209 of part_003: the schemes write sends to.
SchemeAllowed_Plaintext(scheme, plaintext) ==
    \/ scheme = <<"https">>
    \/ scheme = <<"http">>

SchemeAllowed(scheme, plaintext) ==
    \/ scheme = <<"https">>
    \/ plaintext /\ scheme = <<"http">>

\* handleWrite, part_003 49-231: its possible outcomes.
writeParsed(p, set) ==
    LET fs == p.fs
        pem == Flag(fs, <<"pem">>)
        pubkey == Flag(fs, <<"pubkey">>)
        fullkey == Flag(fs, <<"fullkey">>)
        path == Flag(fs, <<"path">>)
        url == Flag(fs, <<"url">>)
        mode == Flag(fs, PathDot(<<"mode">>))
        post == Flag(fs, UrlDot(<<"post">>))
        e1 == oneOf(TRUE, <<Flag(fs, <<"jwks">>), pem>>)
        e2 == oneOf(TRUE, <<pubkey, fullkey>>)
        e3 == oneOf(FALSE, <<url, path>>)
        e4 == DestinationErrors(fs, <<"url", ".">>, <<"path">>)
                \cup DestinationErrors(fs, <<"path", ".">>, <<"url">>)
        e5 == oneOf(TRUE, <<post, Flag(fs, UrlDot(<<"put">>))>>)
        format == IF pem.IsSet THEN "pem" ELSE "jwk"
        keys == Encoded(set, pubkey.IsSet \/ ~fullkey.IsSet)
    IN  IF p.err # Nil THEN {Outcome(p.err, set, <<>>)}
        ELSE IF e1 # Nil THEN {Outcome(e1, set, <<>>)}
        ELSE IF e2 # Nil THEN {Outcome(e2, set, <<>>)}
        ELSE IF e3 # Nil THEN {Outcome(e3, set, <<>>)}
        ELSE IF e4 # {} THEN {Outcome(e, set, <<>>) : e \in e4}
        ELSE IF e5 # Nil THEN {Outcome(e5, set, <<>>)}
        ELSE IF path.IsSet
        THEN EncodeErrors(set) \cup
             writeToPath(path.Value, IF mode.IsSet THEN mode.Value ELSE 256,
                         Flag(fs, PathDot(<<"mkdir">>)), format, keys,
                         CallerSet(set, keys))
        ELSE IF ~url.IsSet THEN {Outcome(Panic("unreachable"), set, <<>>)}
        ELSE IF ~SchemeAllowed(url.Value.Scheme,
                               Flag(fs, UrlDot(<<"allow-plaintext">>)).IsSet)
        THEN {Outcome(Error("unsupported scheme for --url", <<>>), set, <<>>)}
        ELSE EncodeErrors(set) \cup
             writeToURL(format, keys, IF post.IsSet THEN "POST" ELSE "PUT",
                        url.Value, Policy(fs, defaultHTTPConf),
                        CallerSet(set, keys))

handleWrite(args, set) == writeParsed(ParseArgs(writeflags, <<>>, args, 1), set)

\* cmdHelp, help.go 87-111: the help text of a command, the usage text for
\* any other name.
cmdHelp(cmd) ==
    CASE cmd = <<"read">> -> "help read"
      [] cmd = <<"gen">> -> "help gen"
      [] cmd = <<"write">> -> "help write"
      [] OTHER -> "usage"

\* handleOpts, main.go 87-92.
handleOpts_AcceptsFlags(args, set) == {Outcome(Nil, set, <<>>)}

handleOpts(args, set) ==
    IF Len(args) > 0
    THEN {Outcome(Error("invalid option", <<>>), set, <<>>)}
    ELSE {Outcome(Nil, set, <<>>)}

\* ------------------------------------------------------------------- run
\* The arguments the model runs on.
CommandTokens == {<<"read">>, <<"gen">>, <<"write">>, <<"bogus">>, <<"opts">>}

FlagTokens ==
    {<<"-", "-", "help">>,
     <<"-", "path", "=", "p">>,
     <<"-", "url", "=", "https", ":", "//h">>,
     <<"-", "url", "=", "http", ":", "//h">>,
     <<"-", "url", "=", "HTTP", ":", "//h">>,
     <<"-", "url", ".", "allow-plaintext">>,
     <<"-", "url", ".", "schemes", "=", "https", ",", "http">>,
     <<"-", "rsa", "=", "2048">>}

\* The arguments the model draws from; the last is the empty string.
Tokens == CommandTokens \cup FlagTokens \cup {<<>>}

\* An argument list of two invocations with one and two flags.
GroupingExample ==
    << <<"cmd1">>, <<"-", "x">>, <<"cmd2">>, <<"-", "y", "=", "1">>, <<"-", "z">> >>

\* A pipeline that writes the public keys and then the full keys, as the
\* compose example of the README does.
ComposeExample ==
    << <<"gen">>, <<"-", "rsa", "=", "2048">>,
       <<"write">>, <<"-", "pubkey">>, <<"-", "path", "=", "p">>,
       <<"write">>, <<"-", "fullkey">>, <<"-", "path", "=", "p">> >>

ArgLists ==
    UNION {[1 .. n -> Tokens] : n \in 0 .. MaxArgs}
        \cup {GroupingExample, ComposeExample}

\* Line 43: run is given no argument beyond the program name.
NoArguments_Never(arglist) == FALSE

NoArguments(arglist) == Len(arglist) = 0

\* Line 49: the argument is the help sentinel.
IsHelp_SingleDash(arg) == arg = <<"-", "help">>

IsHelp(arg) == arg = <<"-", "-", "help">>

\* Line 54: a dash-prefixed argument joins the invocation started last.
Absorb_IntoFirst(acc, arg) == [acc EXCEPT ![1] = Append(acc[1], arg)]

Absorb(acc, arg) == [acc EXCEPT ![Len(acc)] = Append(acc[Len(acc)], arg)]

\* The loop of main.go 47-58 over the arguments from index i on, with the
\* invocations collected so far: [help, cmds], help when it met "--help".
RECURSIVE Tokenize(_, _, _)
Tokenize(arglist, i, acc) ==
    IF i > Len(arglist) THEN [help |-> FALSE, cmds |-> acc]
    ELSE IF IsHelp(arglist[i]) THEN [help |-> TRUE, cmds |-> acc]
    ELSE IF HasPrefix(arglist[i], <<"-">>)
    THEN Tokenize(arglist, i + 1, Absorb(acc, arglist[i]))
    ELSE Tokenize(arglist, i + 1, Append(acc, <<arglist[i]>>))

\* The switch of main.go 62-81: the outcomes of the invocation cmd.
Dispatch(cmd, set) ==
    CASE cmd[1] = <<"opts">> -> handleOpts(Tail(cmd), set)
      [] cmd[1] = <<"read">> -> handleRead(Tail(cmd), set)
      [] cmd[1] = <<"gen">> -> handleGen(Tail(cmd), set)
      [] cmd[1] = <<"write">> -> handleWrite(Tail(cmd), set)
      [] OTHER -> {Outcome(Error("unknown command", <<>>), set, <<>>)}

\* The key collection run goes on with after an invocation.
SetAfter_Rollback(o, before) == IF o.err # Nil THEN <<>> ELSE o.set

SetAfter(o, before) == o.set

\* Lines 64-78: an error of the invocation is returned by run.
Returns(e) == e # Nil

\* The transport is not part of run's specification.
DoIdle ==
    /\ conf = [timeout |-> 0, interval |-> 0, backoff |-> 10, retryFor |-> 0,
               jitter |-> 0]
    /\ c = conf
    /\ req = [scheme |-> "none", method |-> "none"]
    /\ caller = "none"
    /\ now = 0
    /\ lastBefore = 0
    /\ wait = FALSE
    /\ lastErr = NoErr
    /\ pc = "idle"
    /\ attempts = 0
    /\ via = 0
    /\ hop = "none"
    /\ location = "none"
    /\ sent = {}
    /\ resp = NoResp
    /\ err = NoErr
    /\ ret = [resp |-> NoResp, err |-> NoErr]
    /\ firstDone = -1
    /\ slept = -1
    /\ reqBody = "nil"
    /\ ctx = "none"
    /\ drains = <<>>

Init ==
    /\ argv \in ArgLists
    /\ cmds = <<>>
    /\ rpc = "start"
    /\ idx = 0
    /\ jwkset = <<>>
    /\ rerr = Nil
    /\ out = <<>>
    /\ results = <<>>
    /\ fxlog = <<>>
    /\ errout = <<>>
    /\ status = -1
    /\ DoIdle
    /\ FlagsIdle
    /\ HandlerIdle

\* Lines 43-46, and 49-52 on "--help": run prints the usage and returns nil.
RunUsage ==
    /\ rpc = "start"
    /\ NoArguments(argv) \/ Tokenize(argv, 1, << <<<<"opts">>>> >>).help
    /\ cmds' = IF NoArguments(argv) THEN cmds
               ELSE Tokenize(argv, 1, << <<<<"opts">>>> >>).cmds
    /\ out' = Append(out, "usage")
    /\ rpc' = "returned"
    /\ UNCHANGED <<besideRun, errout, status, argv, idx, jwkset, rerr, results, fxlog>>

\* Lines 47-60: the arguments are split and the key collection is created.
RunTokenize ==
    /\ rpc = "start"
    /\ ~NoArguments(argv)
    /\ ~Tokenize(argv, 1, << <<<<"opts">>>> >>).help
    /\ cmds' = Tokenize(argv, 1, << <<<<"opts">>>> >>).cmds
    /\ idx' = 1
    /\ rpc' = "exec"
    /\ UNCHANGED <<besideRun, errout, status, argv, jwkset, rerr, out, results, fxlog>>

\* One pass of the loop of lines 61-82 for an invocation of the given kind.
Exec(known) ==
    /\ rpc = "exec"
    /\ idx <= Len(cmds)
    /\ known
    /\ \E o \in Dispatch(cmds[idx], jwkset) :
          /\ jwkset' = SetAfter(o, jwkset)
          /\ results' = Append(results, o.err)
          /\ fxlog' = Append(fxlog, o.fx)
          /\ IF Returns(o.err)
             THEN /\ rerr' = o.err
                  /\ rpc' = "returned"
                  /\ idx' = idx
             ELSE /\ rerr' = rerr
                  /\ rpc' = rpc
                  /\ idx' = idx + 1
    /\ UNCHANGED <<besideRun, errout, status, argv, cmds, out>>

ExecOpts == Exec(cmds[idx][1] = <<"opts">>)
ExecRead == Exec(cmds[idx][1] = <<"read">>)
ExecGen == Exec(cmds[idx][1] = <<"gen">>)
ExecWrite == Exec(cmds[idx][1] = <<"write">>)
ExecUnknown ==
    Exec(cmds[idx][1] \notin {<<"opts">>, <<"read">>, <<"gen">>, <<"write">>})

\* Line 84.
RunReturn ==
    /\ rpc = "exec"
    /\ idx > Len(cmds)
    /\ rpc' = "returned"
    /\ UNCHANGED <<besideRun, errout, status, argv, cmds, idx, jwkset, rerr, out, results, fxlog>>

\* main, main.go 17-22: an error of run is printed to standard error and the
\* process exits with status 1; without one main returns, which is status 0.
ExitStatus_Zero(e) == IF e # Nil THEN 0 ELSE 0

ExitStatus(e) == IF e # Nil THEN 1 ELSE 0

MainExit ==
    /\ rpc = "returned"
    /\ status = -1
    /\ errout' = IF rerr # Nil THEN Append(errout, rerr) ELSE errout
    /\ status' = ExitStatus(rerr)
    /\ UNCHANGED <<besideRun, argv, cmds, rpc, idx, jwkset, rerr, out, results,
                   fxlog>>

Next ==
    \/ MainExit
    \/ RunUsage
    \/ RunTokenize
    \/ ExecOpts
    \/ ExecRead
    \/ ExecGen
    \/ ExecWrite
    \/ ExecUnknown
    \/ RunReturn

Spec == Init /\ [][Next]_vars

\* ------------------------------------------------------ one invocation
\* The flags a single invocation of each command is tried with.
ReadFlagTokens ==
    {<<"-", "pem">>,
     <<"-", "jwks">>,
     <<"-", "path", "=", "p">>,
     <<"-", "url", "=", "https", ":", "//h">>,
     <<"-", "url", "=", "http", ":", "//h">>,
     <<"-", "url", "=", "file", ":", "///f">>,
     <<"-", "url", ".", "allow-plaintext">>,
     <<"-", "url", ".", "schemes", "=", "https", ",", "http">>,
     <<"-", "nope">>}

GenFlagTokens ==
    {<<"-", "rsa", "=", "2048">>,
     <<"-", "rsa", "=", "1">>,
     <<"-", "ec">>,
     <<"-", "okp">>,
     <<"-", "setstr", "=", "alg", "=", "ES256">>,
     <<"-", "setstr", "=", "alg", "=", "EdDSA">>,
     <<"-", "setstr", "=", "crv", "=", "P-256">>,
     <<"-", "setstr", "=", "crv", "=", "Ed25519">>,
     <<"-", "setjson", "=", "alg", "=", "5">>,
     <<"-", "setstr", "=", "use", "=", "alg">>}

WriteFlagTokens ==
    {<<"-", "pubkey">>,
     <<"-", "fullkey">>,
     <<"-", "pem">>,
     <<"-", "jwks">>,
     <<"-", "path", "=", "p">>,
     <<"-", "path", ".", "mode", "=", "600">>,
     <<"-", "path", ".", "mkdir", "=", "755">>,
     <<"-", "url", "=", "https", ":", "//h">>,
     <<"-", "url", "=", "http", ":", "//h">>,
     <<"-", "url", ".", "allow-plaintext">>,
     <<"-", "url", ".", "post">>,
     <<"-", "url", ".", "put">>}

HandlerFlagTokens(cmd) ==
    CASE cmd = <<"read">> -> ReadFlagTokens
      [] cmd = <<"gen">> -> GenFlagTokens
      [] cmd = <<"write">> -> WriteFlagTokens

\* The key collections an invocation is handed: none, a private key, a
\* private and a public key.
KeySets ==
    {<<>>,
     <<[id |-> 1, private |-> TRUE]>>,
     <<[id |-> 1, private |-> TRUE], [id |-> 2, private |-> FALSE]>>}

InitHandler ==
    /\ hcmd \in {<<"read">>, <<"gen">>, <<"write">>}
    /\ hargs \in UNION {[1 .. n -> HandlerFlagTokens(hcmd)] : n \in 0 .. MaxFlags}
    /\ hset \in KeySets
    /\ hres = [err |-> Nil, set |-> <<>>, fx |-> <<>>]
    /\ hpc = "call"
    /\ DoIdle
    /\ RunIdle
    /\ FlagsIdle

\* The handler runs on the invocation's flags and the key collection.
Called(outcomes) ==
    /\ hpc = "call"
    /\ \E o \in outcomes : hres' = o
    /\ hpc' = "done"
    /\ UNCHANGED <<doVars, runVars, flagVars, hcmd, hargs, hset>>

CallRead == hcmd = <<"read">> /\ Called(handleRead(hargs, hset))

CallGen == hcmd = <<"gen">> /\ Called(handleGen(hargs, hset))

CallWrite == hcmd = <<"write">> /\ Called(handleWrite(hargs, hset))

NextHandler ==
    \/ CallRead
    \/ CallGen
    \/ CallWrite

SpecHandler == InitHandler /\ [][NextHandler]_vars

\* Do's scheduling: it is one thread that always takes its next step.
FairSpecDo == InitDo /\ [][NextDo]_vars /\ WF_vars(NextDo)

\* ------------------------------------------- destinations and policies
\* One invocation of read or of write with the flags of its destination and
\* of its retry policy, well-formed and not.
PolicyFlagTokens ==
    {<<"-", "url", "=", "https", ":", "//h">>,
     <<"-", "url", ".", "timeout", "=", "3s">>,
     <<"-", "url", ".", "timeout", "=", "x">>,
     <<"-", "url", ".", "retry", ".", "interval", "=", "0">>,
     <<"-", "url", ".", "retry", ".", "backoff", "=", "2">>,
     <<"-", "url", ".", "retry", ".", "backoff", "=", "0", ".", "5">>,
     <<"-", "url", ".", "retry", ".", "backoff", "=", "NaN">>,
     <<"-", "url", ".", "retry", ".", "end", "=", "1s">>,
     <<"-", "url", ".", "retry", ".", "end", "=", "-", "1s">>,
     <<"-", "url", ".", "retry", ".", "jitter", "=", "0", ".", "5">>,
     <<"-", "url", ".", "retry", ".", "jitter", "=", "-", "1">>}

ReadPolicyTokens == PolicyFlagTokens \cup {<<"-", "path", "=", "p">>}

WritePolicyTokens ==
    PolicyFlagTokens \cup
        {<<"-", "path", "=", "d", "/", "p">>,
         <<"-", "path", ".", "mode", "=", "600">>,
         <<"-", "path", ".", "mkdir", "=", "755">>}

InitPolicy ==
    /\ hcmd \in {<<"read">>, <<"write">>}
    /\ hargs \in UNION {[1 .. n -> IF hcmd = <<"read">> THEN ReadPolicyTokens
                                    ELSE WritePolicyTokens] :
                            n \in 0 .. MaxFlags}
    /\ hset = <<[id |-> 1, private |-> TRUE]>>
    /\ hres = [err |-> Nil, set |-> <<>>, fx |-> <<>>]
    /\ hpc = "call"
    /\ DoIdle
    /\ RunIdle
    /\ FlagsIdle

NextPolicy ==
    \/ CallRead
    \/ CallWrite

SpecPolicy == InitPolicy /\ [][NextPolicy]_vars

\* ------------------------------------------------------------ constraints
\* One call of oneOf on a list of flags, some of them set: reg holds the
\* flags listed and calls what the call was given and gave.
ListedNames == {<<"a">>, <<"b">>, <<"c">>, <<"d">>}

\* The lists of two and more flags with different names.
Listed ==
    {l \in UNION {[1 .. n -> ListedNames] : n \in 2 .. MaxListed} :
        \A i, j \in 1 .. Len(l) : i # j => l[i] # l[j]}

InitOneOf ==
    /\ \E l \in Listed : \E on \in SUBSET (1 .. Len(l)) :
          reg = [panic |-> FALSE,
                 cells |-> [i \in 1 .. Len(l) |->
                               [NoValueFlag(l[i]) EXCEPT !.IsSet = i \in on]]]
    /\ regprops = <<>>
    /\ calls = <<>>
    /\ DoIdle
    /\ RunIdle
    /\ HandlerIdle

CallOneOf(noneOK) ==
    /\ calls = <<>>
    /\ calls' = <<[noneOK |-> noneOK, err |-> oneOf(noneOK, reg.cells)]>>
    /\ UNCHANGED <<doVars, runVars, handlerVars, reg, regprops>>

NextOneOf == \E noneOK \in BOOLEAN : CallOneOf(noneOK)

SpecOneOf == InitOneOf /\ [][NextOneOf]_vars

\* ----------------------------------------------------------- value cells
\* The cells of a registry under the calls their handler's flag loop can
\* make on them, one at a time: reg is the registry, regprops the
\* properties the external flags have collected and calls the record of the
\* calls made.

\* A registry with one cell of addUnparsedSliceFlag, flags.go 50-54.
sliceflags == addFlag(EmptyFlagset, SliceFlag(<<"s">>, "unparsed"))

Registries == {genflags, sliceflags}

CellValues ==
    {<<>>, <<"2048">>, <<"3072">>, <<"k", "=", "2048">>}

CellNames == {<<"rsa">>, <<"ec">>, <<"setstr">>, <<"s">>, <<"zz">>}

Dashes == {<<"-">>, <<"-", "-">>, <<"-", "-", "-">>}

CellTokens ==
    {d \o n : d \in Dashes, n \in CellNames}
        \cup {d \o n \o <<"=">> \o v :
                   d \in Dashes, n \in CellNames, v \in CellValues}

\* The cell of a call that found no cell.
NoCell == NoValueFlag(<<>>)

InitFlags ==
    /\ DoIdle
    /\ RunIdle
    /\ HandlerIdle
    /\ reg \in Registries
    /\ regprops = <<>>
    /\ calls = <<>>

\* flag.Set() on the cell k.
CallSet(k) ==
    /\ Len(calls) < MaxCalls
    /\ reg' = [reg EXCEPT !.cells[k] = Set(reg.cells[k]).f]
    /\ calls' = Append(calls,
           [pass |-> FALSE, arg |-> <<>>, name |-> reg.cells[k].Name, k |-> k,
            op |-> "Set", value |-> <<>>, before |-> reg.cells[k],
            after |-> Set(reg.cells[k]).f, err |-> Set(reg.cells[k]).err,
            called |-> "none"])
    /\ UNCHANGED <<doVars, runVars, handlerVars, regprops>>

\* flag.SetValue(value) on the cell k, r being what the call gives.
ValueSet(k, value, r) ==
    /\ reg' = [reg EXCEPT !.cells[k] = r.f]
    /\ regprops' = r.props
    /\ calls' = Append(calls,
           [pass |-> FALSE, arg |-> <<>>, name |-> reg.cells[k].Name, k |-> k,
            op |-> "SetValue", value |-> value, before |-> reg.cells[k],
            after |-> r.f, err |-> r.err, called |-> r.called])

CallSetValue(k, value) ==
    /\ Len(calls) < MaxCalls
    /\ ValueSet(k, value, SetValue(reg.cells[k], regprops, value))
    /\ UNCHANGED <<doVars, runVars, handlerVars>>

\* One pass of the flag loop on the argument arg: cut is its name and
\* value, k the cell found and r what the pass gives.  The loop makes no
\* pass after one that failed.
Passed(arg, cut, k, r) ==
    /\ reg' = r.fs
    /\ regprops' = r.props
    /\ calls' = Append(calls,
           [pass |-> TRUE, arg |-> arg, name |-> cut.before, k |-> k,
            op |-> IF k = 0 THEN "none"
                   ELSE IF cut.found THEN "SetValue" ELSE "Set",
            value |-> cut.after,
            before |-> IF k = 0 THEN NoCell ELSE reg.cells[k],
            after |-> IF k = 0 THEN NoCell ELSE r.fs.cells[k],
            err |-> r.err,
            called |-> IF k = 0 THEN "none"
                       ELSE SetCell(reg, regprops, k, cut).called])

FlagPass(arg) ==
    /\ Len(calls) < MaxCalls
    /\ \A i \in 1 .. Len(calls) : calls[i].pass => calls[i].err = Nil
    /\ Passed(arg, FlagCall(arg), Lookup(reg, FlagCall(arg).before),
              ParseArg(reg, regprops, FlagCall(arg)))
    /\ UNCHANGED <<doVars, runVars, handlerVars>>

NextFlags ==
    \/ \E k \in 1 .. Len(reg.cells) : CallSet(k)
    \/ \E k \in 1 .. Len(reg.cells), value \in CellValues : CallSetValue(k, value)
    \/ \E arg \in CellTokens : FlagPass(arg)

SpecFlags == InitFlags /\ [][NextFlags]_vars

\* ------------------------------------------------------- transport claims

\* Do gave up retrying: it returned the error of a transient failure.
GaveUp ==
    /\ pc = "returned"
    /\ ret.err # NoErr
    /\ (ret.err.temporary \/ ret.err.cause = "rejected")

\* C2: with a policy whose interval is 0, Do performs exactly one attempt:
\* a transient failure of the first attempt is not retried.
C2_IntervalZeroOneAttempt == conf.interval = 0 => attempts <= 1

\* C3: with a policy whose retryFor is 0, Do performs exactly one attempt,
\* for every interval (0 included), backoff and jitter.
C3_RetryForZeroOneAttempt == conf.retryFor = 0 => attempts <= 1

\* C4: when every attempt completes, Do eventually returns; it never
\* retries forever.
C4_DoReturns == <>(pc = "returned")

\* The policy of C5: interval 1s, backoff 2, retryFor 3s.
C5_Policy ==
    /\ conf.interval = Sec
    /\ conf.backoff = 20
    /\ conf.retryFor = 3 * Sec

\* C5 as claimed: under interval 1s, backoff 2, retryFor 3s a request that
\* always fails transiently is given up after exactly 2 attempts.
C5_TwoAttempts == (C5_Policy /\ GaveUp) => attempts = 2

\* C5 as amended: under that policy a request that always fails transiently
\* is given up after exactly 2 attempts when its first attempt returned
\* within 2s of the start (so that the 1s wait still fits the 3s budget),
\* and after that first attempt alone when it took longer; there is never a
\* third attempt.
C5_TwoAttemptsIfFirstInTime ==
    (C5_Policy /\ GaveUp) =>
        attempts = (IF firstDone <= 2 * Sec THEN 2 ELSE 1)

C5_Witness ==
    /\ C5_Policy
    /\ GaveUp
    /\ attempts = 2
    /\ firstDone <= 2 * Sec
    /\ c.interval = 2 * Sec

\* C6: every attempt starts no later than retryFor after Do began (the clock
\* reads 0 then), for every interval, backoff and jitter.
C6_NoAttemptAfterRetryFor == pc = "clientDo" => now <= conf.retryFor

\* C7: when client.Do fails with an error that is not temporary, Do's next
\* step returns exactly that error (not the recorded lastErr), without
\* sleeping and without another attempt; nothing happens after a return.
C7_PermanentErrorReturned ==
    [][/\ (pc = "handle" /\ err # NoErr /\ ~err.temporary) =>
            /\ pc' = "returned"
            /\ ret' = [resp |-> NoResp, err |-> err]
            /\ now' = now
            /\ attempts' = attempts
       /\ pc # "returned"]_vars

C7_Witness ==
    /\ pc = "returned"
    /\ ret.err.cause = "transport"
    /\ ~ret.err.temporary
    /\ lastErr # NoErr
    /\ lastErr.n < ret.err.n

\* C8: Do returns a response only when accept returned nil for it, and does
\* so in the step that follows client.Do, with no further attempt; a
\* response accept rejects is never returned: it is recorded as lastErr and
\* the loop continues with wait set.
C8_OnlyAcceptedReturned ==
    [][/\ (pc = "handle" /\ err = NoErr /\ Accept(caller, resp)) =>
            /\ pc' = "returned"
            /\ ret' = [resp |-> resp, err |-> NoErr]
            /\ attempts' = attempts
       /\ (pc = "handle" /\ err = NoErr /\ ~Accept(caller, resp)) =>
            /\ pc' = "loop"
            /\ wait'
            /\ lastErr' = [cause |-> "rejected", temporary |-> FALSE,
                           n |-> resp.n]
            /\ ret' = ret
       /\ (ret'.resp # NoResp) =>
            /\ pc = "handle"
            /\ err = NoErr
            /\ Accept(caller, resp)
            /\ ret'.resp = resp
       /\ pc # "returned"]_vars

C8_Witness ==
    /\ pc = "returned"
    /\ ret.resp # NoResp
    /\ ret.err = NoErr
    /\ lastErr.cause = "rejected"
    /\ ret.resp.n = attempts
    /\ attempts >= 2

\* C9: for a request whose scheme is https no request is ever issued to another
\* scheme, and a redirect to another scheme ends client.Do in its next step
\* with the redirect response of the https hop and a nil error.
C9_NoDowngradeFollowed ==
    /\ [](req.scheme = "https" =>
            /\ sent \subseteq {"https"}
            /\ hop \in {"none", "https"}
            /\ (resp # NoResp => resp.from = "https"))
    /\ [][(pc = "redirect" /\ req.scheme = "https" /\ location # "https") =>
            /\ pc' = "handle"
            /\ resp'.status = StatusFound
            /\ resp'.location = location
            /\ resp'.from = hop
            /\ resp'.n = attempts
            /\ err' = NoErr
            /\ sent' = sent]_vars

C9_Witness ==
    /\ req.scheme = "https"
    /\ pc = "handle"
    /\ resp.status = StatusFound
    /\ resp.location = "http"
    /\ resp.from = "https"
    /\ sent = {"https"}

\* C30: a retry with an interval sleeps for the interval times a factor
\* between 1 and 1 + jitter, for the interval itself without jitter; only
\* such a retry changes the policy, and only its interval, which it
\* multiplies by the backoff when that is above 1, whatever was slept; the
\* interval is the configured one until then and never gets shorter.
C30_SleepAndBackoff ==
    [][/\ slept = -1 => c = conf
       /\ c'.interval >= c.interval
       /\ IF pc = "loop" /\ pc' = "clientDo" /\ wait /\ c.interval # 0
          THEN /\ 10 * slept' >= 10 * c.interval
               /\ 10 * slept' <= c.interval * (10 + c.jitter)
               /\ c.jitter = 0 => slept' = c.interval
               /\ c' = [c EXCEPT !.interval =
                                     IF c.backoff > 10
                                     THEN (c.interval * c.backoff) \div 10
                                     ELSE c.interval]
          ELSE c' = c /\ slept' = slept]_vars

\* Do has slept a second time, for longer than the interval that a backoff
\* of 2 had doubled from the configured 1 s, and has doubled it again.
C30_Witness ==
    /\ conf.interval = Sec
    /\ conf.backoff = 20
    /\ conf.jitter > 0
    /\ c.interval = 4 * Sec
    /\ slept > 2 * Sec
    /\ pc = "clientDo"

\* C31: when Do gives up retrying it returns a non-nil error, the one
\* recorded for the most recent failed attempt: each failed attempt that is
\* retried overwrites the record with its own temporary error or its own
\* rejection, nothing else changes the record, and giving up returns the
\* record with no response.
C31_GiveUpReturnsLatest ==
    /\ [](GaveUp => (ret.err # NoErr /\ ret.err.n = attempts))
    /\ [][/\ (pc = "handle" /\ pc' = "loop") =>
               /\ lastErr' # NoErr
               /\ lastErr'.n = attempts
               /\ lastErr' = (IF err # NoErr
                              THEN err
                              ELSE [cause |-> "rejected", temporary |-> FALSE,
                                    n |-> resp.n])
          /\ (pc = "loop" /\ pc' = "returned") =>
               /\ lastErr # NoErr
               /\ ret'.err = lastErr
               /\ ret'.resp = NoResp
          /\ (pc # "handle") => (lastErr' = lastErr)]_vars

\* Do gave up after a second attempt whose response was rejected, the first
\* attempt having failed as well.
C31_Witness ==
    /\ GaveUp
    /\ attempts = 2
    /\ ret.err.cause = "rejected"
    /\ ret.err.n = 2
    /\ firstDone < now

C33_AttemptsSequential ==
    /\ []((via > 0) <=> (pc \in {"clientDo", "redirect"}))
    /\ [][/\ (pc' = "clientDo" /\ pc \notin {"clientDo", "redirect"}) =>
               /\ pc = "loop"
               /\ via = 0
               /\ hop = "none"
               /\ wait => (firstDone # -1 /\ now' >= now + c.interval)
          /\ (drains' # drains /\ pc # "handle") =>
               (loopVars' = loopVars)]_vars

\* The second attempt is under way, after a wait of the interval, while the
\* goroutine of the first, rejected response has not yet read its body.
C33_Witness ==
    /\ pc = "clientDo"
    /\ attempts = 2
    /\ slept = Sec
    /\ Len(drains) >= 1
    /\ drains[1].at = "copy"

\* C34: every response accept rejected has its body read to the end and then
\* closed exactly once by its goroutine: a goroutine that has finished has
\* drained the body and closed it once.
C34_RejectedBodiesDrained ==
    \A i \in 1 .. Len(drains) :
        /\ drains[i].closes <= 1
        /\ drains[i].at = "done" =>
               (drains[i].drained /\ drains[i].closes = 1)

\* C39: when Do returns a response the context of the accepted attempt is
\* not cancelled, for a zero and for a non-zero timeout, so that readFromURL
\* reads the body to its end.
C39_ReturnedResponseUsable ==
    (pc = "returned" /\ ret.resp # NoResp) =>
        /\ ctx = "live"
        /\ (caller = "read" => ReadAll(ctx) = {"complete"})

\* C38: every attempt of a URL write, the retries included, is handed the
\* complete payload: when client.Do is called for a write the reader behind
\* the request body has not been read by an earlier attempt.
C38_PayloadOnEveryAttempt ==
    (caller = "write" /\ pc \in {"clientDo", "redirect"}) =>
        reqBody = "unread"

\* ------------------------------------------------------------ run: claims
\* C1: run executes the invocations strictly in argument order, one result
\* per invocation; every result but the last is a success; an invocation
\* leaves the key collection as its handler left it and never removes a key
\* an earlier invocation added (no rollback); the first error is what run
\* returns, and once run has returned no further invocation is started.
C1_ShortCircuit ==
    /\ [](/\ Len(results) = Len(fxlog)
          /\ Len(results) <= Len(cmds)
          /\ rpc = "exec" => idx = Len(results) + 1
          /\ \A i \in 1 .. Len(results) - 1 : results[i] = Nil
          /\ (results # <<>> /\ results[Len(results)] # Nil) =>
                (rpc = "returned" /\ rerr = results[Len(results)])
          /\ (results = <<>> \/ results[Len(results)] = Nil) => rerr = Nil)
    /\ [][/\ rpc = "returned" => UNCHANGED <<rpc, results, fxlog, jwkset, rerr>>
          /\ results' # results =>
                /\ rpc = "exec"
                /\ Len(results') = Len(results) + 1
                /\ SubSeq(results', 1, Len(results)) = results
                /\ Len(jwkset') >= Len(jwkset)
                /\ SubSeq(jwkset', 1, Len(jwkset)) = jwkset
                /\ \E o \in Dispatch(cmds[idx], jwkset) :
                      /\ o.err = results'[Len(results')]
                      /\ o.set = jwkset'
                      /\ o.fx = fxlog'[Len(fxlog')]]_vars

\* A pipeline whose third invocation fails after an earlier one added a key,
\* with an invocation left that is never started.
C1_Witness ==
    /\ rpc = "returned"
    /\ Len(results) = 3
    /\ results[3] # Nil
    /\ rerr = results[3]
    /\ Len(cmds) > 3
    /\ jwkset # <<>>

\* C10: in read and write no request goes to an http URL unless the
\* invocation has the flag url.allow-plaintext; without the flag, an
\* invocation with an http URL or with http among url.schemes ends in an
\* error and sends no request at all.
C10_PlaintextNeedsFlag ==
    \A i \in 1 .. Len(fxlog) :
        LET cmd == cmds[i]
            allows == \E j \in 2 .. Len(cmd) :
                         cmd[j] = <<"-", "url", ".", "allow-plaintext">>
            asks == \E j \in 2 .. Len(cmd) :
                       \/ /\ HasPrefix(cmd[j], <<"-", "url", "=">>)
                          /\ Len(cmd[j]) > 3
                          /\ ToLower(cmd[j][4]) = "http"
                       \/ /\ HasPrefix(cmd[j], <<"-", "url", ".", "schemes", "=">>)
                          /\ Contains(cmd[j], "http")
            requests == {j \in 1 .. Len(fxlog[i]) : fxlog[i][j].kind = "request"}
        IN  cmd[1] \in {<<"read">>, <<"write">>} =>
              /\ (\E j \in requests : fxlog[i][j].scheme = "http") => allows
              /\ (asks /\ ~allows) => (results[i] # Nil /\ requests = {})

\* A write with the flag has sent a request to an http URL.
C10_Witness ==
    /\ Len(fxlog) = 2
    /\ cmds[2] = << <<"write">>, <<"-", "url", "=", "http", ":", "//h">>,
                    <<"-", "url", ".", "allow-plaintext">> >>
    /\ \E j \in 1 .. Len(fxlog[2]) :
          fxlog[2][j].kind = "request" /\ fxlog[2][j].scheme = "http"
    /\ results[2] = Nil

\* ------------------------------------------------- one invocation: claims
\* C11: write puts private key material into a file or a request only when
\* the invocation has -fullkey; without -fullkey (with -pubkey or with
\* neither) what it writes is every key of the collection in its public
\* form, whatever the format; with both -pubkey and -fullkey it returns an
\* error and writes nothing.
C11_PrivateOnlyWithFullkey ==
    (hpc = "done" /\ hcmd = <<"write">>) =>
        LET full == Contains(hargs, <<"-", "fullkey">>)
            pub == Contains(hargs, <<"-", "pubkey">>)
            written == {j \in 1 .. Len(hres.fx) :
                          hres.fx[j].kind \in {"writefile", "request"}}
        IN  /\ \A j \in written :
                  (\E k \in 1 .. Len(hres.fx[j].keys) : hres.fx[j].keys[k].private)
                      => full
            /\ ~full =>
                  \A j \in written :
                      hres.fx[j].keys =
                          [k \in 1 .. Len(hset) |->
                              [id |-> hset[k].id, private |-> FALSE]]
            /\ (full /\ pub) => (hres.err # Nil /\ hres.fx = <<>>)

\* A write with -fullkey and -pem has put a private key into a file.
C11_Witness ==
    /\ hpc = "done"
    /\ hcmd = <<"write">>
    /\ Contains(hargs, <<"-", "fullkey">>)
    /\ Contains(hargs, <<"-", "pem">>)
    /\ hres.err = Nil
    /\ \E j \in 1 .. Len(hres.fx) :
          /\ hres.fx[j].kind = "writefile"
          /\ hres.fx[j].format = "pem"
          /\ \E k \in 1 .. Len(hres.fx[j].keys) : hres.fx[j].keys[k].private

\* The property an argument of gen sets with -setstr or -setjson: [found,
\* before] with the name in before.
SetName(arg) ==
    IF /\ FlagCall(arg).before \in {<<"setstr">>, <<"setjson">>}
       /\ FlagCall(arg).found
    THEN Cut(FlagCall(arg).after, "=")
    ELSE [found |-> FALSE, before |-> <<>>, after |-> <<>>]

\* Two of the arguments set the same property name.
NameRepeated(args) ==
    \E i, j \in 1 .. Len(args) :
        /\ i < j
        /\ SetName(args[i]).found
        /\ SetName(args[j]).found
        /\ SetName(args[i]).before = SetName(args[j]).before

\* C40: gen rejects with "duplicate --set key" exactly the invocations that
\* set a property name more than once: an invocation that repeats a name
\* fails, and one whose names are all distinct never fails with that error.
C40_DuplicateSetKey ==
    (hpc = "done" /\ hcmd = <<"gen">>) =>
        /\ NameRepeated(hargs) => hres.err # Nil
        /\ hres.err.msg = "duplicate --set key" => NameRepeated(hargs)

\* ------------------------------------------------------ run: more claims
\* C12: when any argument, at any position, is exactly --help, run executes
\* no invocation (no result, no effect, no key), not even one that comes
\* before the sentinel, and what it returns is success.
C12_HelpSuppressesExecution ==
    (\E i \in 1 .. Len(argv) : argv[i] = <<"-", "-", "help">>) =>
        /\ rpc \in {"start", "returned"}
        /\ results = <<>>
        /\ fxlog = <<>>
        /\ jwkset = <<>>
        /\ rerr = Nil

\* run has returned on a --help that follows a complete gen invocation.
C12_Witness ==
    /\ rpc = "returned"
    /\ Len(argv) >= 3
    /\ argv[1] = <<"gen">>
    /\ argv[2] = <<"-", "rsa", "=", "2048">>
    /\ argv[3] = <<"-", "-", "help">>
    /\ rerr = Nil

\* C13: on the help sentinel run prints the help text of the command of the
\* invocation that is open when the sentinel is met.
C13_HelpOfOpenCommand ==
    (/\ rpc = "returned"
     /\ \E i \in 1 .. Len(argv) : argv[i] = <<"-", "-", "help">>) =>
        out = <<cmdHelp(cmds[Len(cmds)][1])>>

\* C14: with no argument run prints the usage text, reads no argument into
\* an invocation, never creates or touches the key collection, executes
\* nothing and returns success.
C14_NoArgumentsUsage ==
    Len(argv) = 0 =>
        /\ rpc \in {"start", "returned"}
        /\ cmds = <<>>
        /\ idx = 0
        /\ results = <<>>
        /\ fxlog = <<>>
        /\ jwkset = <<>>
        /\ rerr = Nil
        /\ out = (IF rpc = "returned" THEN <<"usage">> ELSE <<>>)

\* run has returned from a call without arguments.
C14_Witness ==
    /\ Len(argv) = 0
    /\ rpc = "returned"
    /\ out = <<"usage">>
    /\ rerr = Nil

\* C15: an argument list without --help whose first argument starts with a
\* dash makes run fail in the leading synthetic invocation, with its
\* "invalid option" error, before any subcommand is executed.
C15_LeadingFlagRejected ==
    (/\ Len(argv) > 0
     /\ HasPrefix(argv[1], <<"-">>)
     /\ \A i \in 1 .. Len(argv) : argv[i] # <<"-", "-", "help">>) =>
        /\ rpc = "exec" => (idx = 1 /\ results = <<>>)
        /\ jwkset = <<>>
        /\ \A i \in 1 .. Len(fxlog) : fxlog[i] = <<>>
        /\ Len(results) <= 1
        /\ rpc = "returned" =>
              /\ results = <<Error("invalid option", <<>>)>>
              /\ rerr = Error("invalid option", <<>>)

\* run has failed on a flag that comes before the first command.
C15_Witness ==
    /\ rpc = "returned"
    /\ Len(argv) >= 2
    /\ argv[1] = <<"-", "path", "=", "p">>
    /\ argv[2] = <<"gen">>
    /\ rerr = Error("invalid option", <<>>)

\* The arguments of the invocations from index i on, one after the other.
RECURSIVE Flattened(_, _)
Flattened(invocations, i) ==
    IF i > Len(invocations) THEN <<>>
    ELSE invocations[i] \o Flattened(invocations, i + 1)

\* C16: the invocations run splits the arguments into are, read one after
\* the other, the arguments in their order; every argument that does not
\* start with a dash starts an invocation and every argument that does is
\* a flag of the invocation started last; the example of two commands with
\* one and two flags gives these two invocations.
C16_TokenizeGrouping ==
    (/\ rpc # "start"
     /\ \A i \in 1 .. Len(argv) : argv[i] # <<"-", "-", "help">>
     /\ Len(argv) > 0) =>
        /\ cmds[1][1] = <<"opts">>
        /\ Tail(Flattened(cmds, 1)) = argv
        /\ \A i \in 2 .. Len(cmds) : ~HasPrefix(cmds[i][1], <<"-">>)
        /\ \A i \in 1 .. Len(cmds) :
              \A j \in 2 .. Len(cmds[i]) : HasPrefix(cmds[i][j], <<"-">>)
        /\ argv = GroupingExample =>
              Tail(cmds) =
                  << << <<"cmd1">>, <<"-", "x">> >>,
                     << <<"cmd2">>, <<"-", "y", "=", "1">>, <<"-", "z">> >> >>

\* run has split the example.
C16_Witness ==
    /\ argv = GroupingExample
    /\ rpc # "start"
    /\ Len(cmds) = 3
    /\ cmds[3] = << <<"cmd2">>, <<"-", "y", "=", "1">>, <<"-", "z">> >>

\* C17: every invocation the user gave whose command name is not read, gen
\* or write fails with "unknown command" and does nothing.
C17_UnknownCommandFails ==
    \A i \in 2 .. Len(results) :
        cmds[i][1] \notin {<<"read">>, <<"gen">>, <<"write">>} =>
            /\ results[i] = Error("unknown command", <<>>)
            /\ fxlog[i] = <<>>

\* The invocation was given the flag, with one dash or two.
HasFlag(cmd, name) ==
    \E j \in 2 .. Len(cmd) :
        cmd[j] \in {<<"-">> \o name, <<"-", "-">> \o name}

\* C36: write never modifies the shared key collection: a pass of run's loop
\* over a write invocation, whatever its flags and whether it succeeds or
\* fails, leaves the collection as it was, private parts included; what it
\* writes or sends holds every key of the collection, with the private part
\* exactly when -fullkey was given, also after an earlier write -pubkey.
C36_WriteLeavesCollection ==
    [][(rpc = "exec" /\ idx <= Len(cmds) /\ cmds[idx][1] = <<"write">>) =>
          /\ jwkset' = jwkset
          /\ LET fx == fxlog'[Len(fxlog')] IN
             \A k \in 1 .. Len(fx) :
                 fx[k].kind \in {"writefile", "request"} =>
                     /\ Len(fx[k].keys) = Len(jwkset)
                     /\ \A i \in 1 .. Len(jwkset) :
                            /\ fx[k].keys[i].id = jwkset[i].id
                            /\ fx[k].keys[i].private =
                                  (/\ jwkset[i].private
                                   /\ HasFlag(cmds[idx], <<"fullkey">>))]_vars

\* The pipeline wrote the public key and then the full key of the one key it
\* generated, and still holds the private part.
C36_Witness ==
    /\ argv = ComposeExample
    /\ rpc = "returned"
    /\ rerr = Nil
    /\ Len(fxlog) = 4
    /\ fxlog[3][1].keys = <<[id |-> 1, private |-> FALSE]>>
    /\ fxlog[4][1].keys = <<[id |-> 1, private |-> TRUE]>>
    /\ jwkset = <<[id |-> 1, private |-> TRUE]>>

\* C37: no argument list makes read, gen or write abort on a programming
\* error: no registry holds a name twice, every argument handed to a handler
\* begins with a dash, so that arg[1:] is in range, and no invocation ends in
\* a panic: when validation passes one of the effect branches is taken.
C37_NoPanic ==
    /\ ~readflags.panic /\ ~genflags.panic /\ ~writeflags.panic
    /\ \A i \in 1 .. Len(cmds) : \A j \in 2 .. Len(cmds[i]) :
           /\ Len(cmds[i][j]) >= 1
           /\ cmds[i][j][1] = "-"
    /\ \A i \in 1 .. Len(results) : results[i].flags # << <<"panic">> >>
    /\ rerr.flags # << <<"panic">> >>

\* read ran with a flag and took its one effect branch, in an argument list
\* that also holds an empty argument.
C37_Witness ==
    /\ Len(argv) = 3
    /\ argv[1] = <<"read">>
    /\ argv[2] = <<"-", "path", "=", "p">>
    /\ argv[3] = <<>>
    /\ Len(fxlog) = 3
    /\ fxlog[2] # <<>>
    /\ results[2] = Nil
    /\ rpc = "returned"

\* ------------------------------------------------------ value cells: claims

\* The argument with one dash more or less in front of its name.
Twin(arg) == IF arg[2] = "-" THEN Tail(arg) ELSE <<"-">> \o arg

\* The pass e of the flag loop took reg and regprops to the registry fs and
\* the properties props; its argument starts with one or two dashes.
TwinAgrees(e, fs, props) ==
    LET twin == FlagCall(Twin(e.arg))
        body == IF e.arg[2] = "-" THEN Tail(Tail(e.arg)) ELSE Tail(e.arg)
    IN  /\ ParseArg(reg, regprops, twin) = [fs |-> fs, props |-> props, err |-> e.err]
        /\ Lookup(reg, twin.before) = e.k
        /\ twin.before = e.name
        /\ twin.after = e.value
        /\ e.k # 0 => (twin.found <=> e.op = "SetValue")
        /\ ~Contains(e.name, "=")
        /\ IF Contains(body, "=")
           THEN body = e.name \o <<"=">> \o e.value /\ e.op # "Set"
           ELSE body = e.name /\ e.value = <<>> /\ e.op # "SetValue"

\* C18: a pass of the flag loop on the argument -n or -n=v and a pass on
\* --n or --n=v from the same registry call the same operation of the same
\* cell with the same value and give the same registry, properties and
\* error; the value is all that follows the first "=", and a third dash
\* stays in the name.
C18_DashEquivalence ==
    [][(Len(calls') > Len(calls) /\ calls'[Len(calls')].pass) =>
          LET e == calls'[Len(calls')] IN
          IF HasPrefix(e.arg, <<"-", "-", "-">>)
          THEN /\ e.name[1] = "-"
               /\ e.err = Error("unknown flag", <<e.name>>)
               /\ reg' = reg
          ELSE TwinAgrees(e, reg', regprops')]_vars

\* --setstr=k=2048 and then -rsa=2048 have both been accepted.
C18_Witness ==
    /\ Len(calls) = 2
    /\ calls[1].pass /\ calls[1].arg = <<"-", "-", "setstr", "=", "k", "=", "2048">>
    /\ calls[1].err = Nil /\ calls[1].value = <<"k", "=", "2048">>
    /\ calls[2].pass /\ calls[2].arg = <<"-", "rsa", "=", "2048">>
    /\ calls[2].err = Nil /\ calls[2].after.Value = 2048

\* The calls i and j are the first and the second call on a cell that has
\* no update function, and both are calls of the same operation.
CalledTwice(i, j) ==
    /\ i < j
    /\ calls[i].k # 0
    /\ calls[j].k = calls[i].k
    /\ calls[j].op = calls[i].op
    /\ ~calls[i].before.HasUpdate
    /\ \A h \in 1 .. j - 1 : h # i => calls[h].k # calls[i].k

\* C19: the second of two calls of SetValue, or of two calls of Set, on a
\* cell without an update function fails with the duplicate-flag error and
\* leaves the value the first call produced.
C19_SecondCallDuplicate ==
    \A i, j \in 1 .. Len(calls) :
        CalledTwice(i, j) =>
            /\ calls[j].err = Error("duplicate flag", <<calls[j].name>>)
            /\ calls[j].after.Value = calls[i].after.Value

\* C19, amended: the second call leaves the value the first call produced
\* and fails: a second Set with the duplicate-flag error, a second SetValue
\* with "does not take a value" on a no-value cell, else with the
\* empty-value error on an empty text, else with the duplicate-flag error.
C19_SecondCallFails ==
    \A i, j \in 1 .. Len(calls) :
        CalledTwice(i, j) =>
            /\ calls[j].after.Value = calls[i].after.Value
            /\ calls[j].called = "none"
            /\ calls[j].err =
                  IF calls[j].op = "Set"
                  THEN Error("duplicate flag", <<calls[j].name>>)
                  ELSE IF calls[j].before.NoValue
                  THEN Error("does not take a value", <<calls[j].name>>)
                  ELSE IF calls[j].value = <<>>
                  THEN Error("value must not be empty", <<calls[j].name>>)
                  ELSE Error("duplicate flag", <<calls[j].name>>)

\* rsa has been given 2048 and then 3072.
C19_Witness ==
    /\ Len(calls) = 2
    /\ CalledTwice(1, 2)
    /\ calls[1].op = "SetValue" /\ calls[1].value = <<"2048">>
    /\ calls[1].err = Nil
    /\ calls[2].value = <<"3072">>
    /\ calls[2].err = Error("duplicate flag", <<<<"rsa">>>>)
    /\ calls[2].after.Value = 2048

\* C20: SetValue with the empty text fails on every cell, set or not, with
\* or without an update function, and calls neither parse nor update.
C20_EmptyValueRejected ==
    \A j \in 1 .. Len(calls) :
        (calls[j].op = "SetValue" /\ calls[j].value = <<>>) =>
            /\ calls[j].err # Nil
            /\ calls[j].called = "none"
            /\ calls[j].after.Value = calls[j].before.Value

\* The empty text has been refused by a slice cell that holds a value.
C20_Witness ==
    /\ Len(calls) = 2
    /\ calls[1].op = "SetValue" /\ calls[1].err = Nil
    /\ calls[1].before.Slice /\ calls[1].after.Value = << <<"2048">> >>
    /\ calls[2].k = calls[1].k
    /\ calls[2].op = "SetValue" /\ calls[2].value = <<>>
    /\ calls[2].err = Error("value must not be empty", <<<<"s">>>>)

\* C21: Set succeeds exactly on a no-value cell that is not set yet, so it
\* fails on every cell that takes a value; SetValue fails on a no-value
\* cell for every text, without calling parse or update, and leaves no
\* value in it.
C21_ArityPerCell ==
    \A j \in 1 .. Len(calls) :
        /\ calls[j].op = "Set" =>
              (calls[j].err = Nil <=>
                   (calls[j].before.NoValue /\ ~calls[j].before.IsSet))
        /\ (calls[j].op = "SetValue" /\ calls[j].before.NoValue) =>
              /\ calls[j].err = Error("does not take a value", <<calls[j].name>>)
              /\ calls[j].called = "none"
              /\ calls[j].after.Value = calls[j].before.Value

\* -ec has been accepted without a value and then refused with one.
C21_Witness ==
    /\ Len(calls) = 2
    /\ calls[1].op = "Set" /\ calls[1].name = <<"ec">> /\ calls[1].err = Nil
    /\ calls[2].op = "SetValue" /\ calls[2].name = <<"ec">>
    /\ calls[2].value = <<"2048">>
    /\ calls[2].err = Error("does not take a value", <<<<"ec">>>>)

\* C28: run prints the usage text at most once and only when it returns no
\* error, so a run that returns an error has printed nothing; main then
\* prints that one error to standard error and exits with status 1, and
\* prints nothing and exits with status 0 otherwise.
C28_HelpOrError ==
    /\ Len(out) <= 1
    /\ out # <<>> => (rerr = Nil /\ rpc = "returned")
    /\ rerr # Nil => (out = <<>> /\ rpc = "returned")
    /\ status = -1 => errout = <<>>
    /\ status # -1 =>
          /\ rpc = "returned"
          /\ IF rerr # Nil
             THEN errout = <<rerr>> /\ status = 1
             ELSE errout = <<>> /\ status = 0

\* The process has ended on an unknown command.
C28_Witness ==
    /\ status = 1
    /\ errout = <<Error("unknown command", <<>>)>>
    /\ out = <<>>
    /\ argv = << <<"bogus">> >>

\* ---------------------------------------- destinations and policies: claims

\* The registry the handler of the invocation starts from.
HandlerFlags ==
    CASE hcmd = <<"read">> -> readflags
      [] hcmd = <<"gen">> -> genflags
      [] hcmd = <<"write">> -> writeflags

\* The error e names the flag.
Names(e, name) == \E j \in 1 .. Len(e.flags) : e.flags[j] = name

\* The flag loop has come to the argument cut with the registry and
\* properties before, without an error, and the argument is the first
\* value of the cell k, which takes values.
FirstValue(before, cut, k) ==
    /\ before.err = Nil
    /\ k # 0
    /\ cut.found
    /\ cut.after # <<>>
    /\ ~before.fs.cells[k].NoValue
    /\ ~before.fs.cells[k].IsSet

\* What the claim asks of that argument: the cell takes the value its parse
\* function gives, and an error of the parse function is the error of the
\* invocation and names the flag.
ParseErrorNamed(before, cut, k) ==
    LET r == Parse(before.fs.cells[k], before.props, cut.after) IN
    r.err # Nil =>
        /\ hres.err = r.err
        /\ hres.fx = <<>>
        /\ Names(hres.err, before.fs.cells[k].Name)

\* C22: when the parse function of a flag fails on the first value given
\* for it, the invocation fails with that error, and the error names the
\* flag.
C22_ParseErrorNamesFlag ==
    hpc = "done" =>
        \A i \in 1 .. Len(hargs) :
            FirstValue(ParseArgs(HandlerFlags, <<>>, SubSeq(hargs, 1, i - 1), 1),
                       FlagCall(hargs[i]),
                       Lookup(HandlerFlags, FlagCall(hargs[i]).before)) =>
                ParseErrorNamed(
                    ParseArgs(HandlerFlags, <<>>, SubSeq(hargs, 1, i - 1), 1),
                    FlagCall(hargs[i]),
                    Lookup(HandlerFlags, FlagCall(hargs[i]).before))

\* The invocation has a flag of this name, or one whose name starts with
\* this prefix.
Given(name) == \E i \in 1 .. Len(hargs) : FlagCall(hargs[i]).before = name

GivenUnder(prefix) ==
    \E i \in 1 .. Len(hargs) : HasPrefix(FlagCall(hargs[i]).before, prefix)

\* The invocation was refused: an error, no effect, the keys untouched.
Refused ==
    /\ hres.err # Nil
    /\ hres.fx = <<>>
    /\ hres.set = hset

\* C25: read and write refuse -path together with a flag named url.*, and
\* write refuses -url together with a flag named path.*; neither kind of
\* flag is needed, the destination alone is enough; so a handler acts only
\* with one of -path and -url, and on files only without any url.* flag,
\* on the network only without any path.* flag.
C25_DestinationFlags ==
    hpc = "done" =>
        /\ (Given(<<"path">>) /\ GivenUnder(<<"url", ".">>)) => Refused
        /\ (Given(<<"url">>) /\ GivenUnder(<<"path", ".">>)) => Refused
        /\ (Len(hargs) = 1 /\ (Given(<<"path">>) \/ Given(<<"url">>))) =>
              (hres.fx # <<>> \/ hres.err = Error("encode", <<>>))
        /\ hres.fx # <<>> =>
              /\ Given(<<"path">>) # Given(<<"url">>)
              /\ \A i \in 1 .. Len(hres.fx) :
                    IF hres.fx[i].kind = "request"
                    THEN Given(<<"url">>) /\ ~GivenUnder(<<"path", ".">>)
                    ELSE Given(<<"path">>) /\ ~GivenUnder(<<"url", ".">>)

\* write has refused -path with -url.timeout.
C25_Witness ==
    /\ hpc = "done"
    /\ hcmd = <<"write">>
    /\ hargs = << <<"-", "path", "=", "d", "/", "p">>,
                  <<"-", "url", ".", "timeout", "=", "3s">> >>
    /\ Refused
    /\ hres.err.msg = "cannot specify both "

\* The invocation has the flag name with the value text.
GivenAs(name, text) ==
    \E i \in 1 .. Len(hargs) : hargs[i] = <<"-">> \o name \o <<"=">> \o text

\* The policy the flags of the invocation ask for: each field from its
\* flag, 10 s, 1 s, 1.5, 60 s and 0.1 where there is none.
AskedPolicy ==
    [timeout |-> IF GivenAs(UrlDot(<<"timeout">>), <<"3s">>)
                 THEN 3 * Sec ELSE 10 * Sec,
     interval |-> IF GivenAs(UrlDot(<<"retry", ".", "interval">>), <<"0">>)
                  THEN 0 ELSE Sec,
     backoff |-> IF GivenAs(UrlDot(<<"retry", ".", "backoff">>), <<"2">>)
                 THEN Float(20)
                 ELSE IF GivenAs(UrlDot(<<"retry", ".", "backoff">>), <<"NaN">>)
                 THEN NaN ELSE Float(15),
     retryFor |-> IF GivenAs(UrlDot(<<"retry", ".", "end">>), <<"1s">>)
                  THEN Sec ELSE 60 * Sec,
     jitter |-> IF GivenAs(UrlDot(<<"retry", ".", "jitter">>), <<"0", ".", "5">>)
                THEN Float(5) ELSE Float(1)]

\* C26: every request of read and of write is made under the policy that
\* has each field from its flag when the flag is given and from the
\* defaults otherwise.
C26_PolicyFromFlags ==
    hpc = "done" =>
        \A i \in 1 .. Len(hres.fx) :
            hres.fx[i].kind = "request" => hres.fx[i].conf = AskedPolicy

\* write has sent a request with -url.timeout=3s as its only policy flag.
C26_Witness ==
    /\ hpc = "done"
    /\ hcmd = <<"write">>
    /\ hargs = << <<"-", "url", "=", "https", ":", "//h">>,
                  <<"-", "url", ".", "timeout", "=", "3s">> >>
    /\ hres.fx # <<>>
    /\ hres.fx[1].kind = "request"
    /\ hres.fx[1].conf =
          [timeout |-> 3 * Sec, interval |-> Sec, backoff |-> Float(15),
           retryFor |-> 60 * Sec, jitter |-> Float(1)]

\* A float64 is at least the number of tenths t.
AtLeast(x, t) == ~x.nan /\ x.tenths >= t

\* C27: every request of read and of write is made under a policy with a
\* backoff of at least 1 and a timeout, interval, retry budget and jitter
\* of at least 0.
C27_PolicyInRange ==
    hpc = "done" =>
        \A i \in 1 .. Len(hres.fx) :
            hres.fx[i].kind = "request" =>
                /\ AtLeast(hres.fx[i].conf.backoff, 10)
                /\ AtLeast(hres.fx[i].conf.jitter, 0)
                /\ hres.fx[i].conf.timeout >= 0
                /\ hres.fx[i].conf.interval >= 0
                /\ hres.fx[i].conf.retryFor >= 0

\* The directory a path lies in: the path up to its last separator, "."
\* for a path without one.
RECURSIVE ParentOf(_)
ParentOf(path) ==
    IF ~Contains(path, "/") THEN <<".">>
    ELSE IF path[Len(path)] = "/" THEN SubSeq(path, 1, Len(path) - 1)
    ELSE ParentOf(SubSeq(path, 1, Len(path) - 1))

\* C29: write creates a directory only when -path.mkdir is given and the
\* first write of the file has been tried; the directory is the one the
\* file lies in, created with the mode of -path.mkdir, and the write is
\* tried once more after it and never otherwise.
C29_MkdirParents ==
    (hpc = "done" /\ hcmd = <<"write">>) =>
        /\ \A i \in 1 .. Len(hres.fx) :
              hres.fx[i].kind = "mkdir" =>
                  /\ i = 2
                  /\ hres.fx[1].kind = "writefile"
                  /\ GivenAs(PathDot(<<"mkdir">>), <<"755">>)
                  /\ hres.fx[i].mode = ParseMode(<<"755">>).v
                  /\ hres.fx[i].path = ParentOf(hres.fx[1].path)
        /\ \A i \in 2 .. Len(hres.fx) :
              hres.fx[i].kind = "writefile" =>
                  /\ i = 3
                  /\ hres.fx[2].kind = "mkdir"
                  /\ hres.fx[3] = hres.fx[1]

\* What flag processing and validation made of an invocation: the error
\* returned before the keys were encoded and any effect was attempted, or Nil
\* when they passed.
Verdict(o) ==
    IF o.fx = <<>> /\ o.err # Nil /\ o.err.msg # "encode" THEN o.err ELSE Nil

\* C35: the outcome of read's and write's flag processing and constraint
\* validation is determined by the arguments alone: all the runs the handler
\* can make on one argument list end validation the same way, whatever order
\* the registry is ranged over in.
C35_OutcomeFromArguments ==
    (hpc = "call" /\ hcmd \in {<<"read">>, <<"write">>}) =>
        Cardinality({Verdict(o) : o \in Dispatch(<<hcmd>> \o hargs, hset)}) = 1

\* ------------------------------------------------------ constraints: claims

\* How many of the flags listed are set.
CountSet == Cardinality({i \in 1 .. Len(reg.cells) : reg.cells[i].IsSet})

\* C23: oneOf on two or more flags succeeds exactly when one of them is
\* set, or none is and none is allowed; with two or more set it fails
\* whether none is allowed or not.
C23_OneOfExact ==
    calls # <<>> =>
        /\ calls[1].err = Nil <=>
               (CountSet = 1 \/ (CountSet = 0 /\ calls[1].noneOK))
        /\ CountSet >= 2 => calls[1].err # Nil

\* oneOf has accepted three flags of which none is set.
C23_Witness ==
    /\ calls # <<>>
    /\ Len(reg.cells) = 3
    /\ CountSet = 0
    /\ calls[1].noneOK
    /\ calls[1].err = Nil

\* The names of the flags listed, each after two dashes, in list order and
\* with sep between them but lastsep before the last.
Enumerated(sep, lastsep) ==
    LET n == Len(reg.cells) IN
    [j \in 1 .. 2 * n - 1 |->
        IF j % 2 = 1 THEN <<"--">> \o reg.cells[(j + 1) \div 2].Name
        ELSE IF j = 2 * n - 2 THEN <<lastsep>>
        ELSE <<sep>>]

\* C24: the error of oneOf lists every flag in list order and is decided by
\* the number of flags and by whether none or several are set: "must
\* specify one of --a or --b" and "must specify one of --a, --b, or --c",
\* "cannot specify both --a and --b" and "cannot specify multiple of --a,
\* --b, and --c".
C24_OneOfMessage ==
    (calls # <<>> /\ calls[1].err # Nil) =>
        /\ calls[1].err =
              IF CountSet = 0
              THEN IF Len(reg.cells) = 2
                   THEN Error("must specify one of ", Enumerated(", ", " or "))
                   ELSE Error("must specify one of ", Enumerated(", ", ", or "))
              ELSE IF Len(reg.cells) = 2
                   THEN Error("cannot specify both ", Enumerated(", ", " and "))
                   ELSE Error("cannot specify multiple of ",
                              Enumerated(", ", ", and "))
        /\ (Len(reg.cells) = 3 /\ CountSet = 0 /\ reg.cells[1].Name = <<"a">>
               /\ reg.cells[2].Name = <<"b">> /\ reg.cells[3].Name = <<"c">>) =>
              calls[1].err.flags =
                  << <<"--", "a">>, <<", ">>, <<"--", "b">>, <<", or ">>,
                     <<"--", "c">> >>

\* oneOf has refused the flags c, a and b with a and b set.
C24_Witness ==
    /\ calls # <<>>
    /\ Len(reg.cells) = 3
    /\ reg.cells[1].Name = <<"c">> /\ ~reg.cells[1].IsSet
    /\ reg.cells[2].Name = <<"a">> /\ reg.cells[2].IsSet
    /\ reg.cells[3].Name = <<"b">> /\ reg.cells[3].IsSet
    /\ calls[1].err.msg = "cannot specify multiple of "
    /\ calls[1].err.flags[4] = <<", and ">>

====
